---------------------------- MODULE Spec2Model ----------------------------
(***************************************************************************)
(* A model of the LaCAM solver of src/app.js: the graph, the distance      *)
(* oracle, the PIBT-style successor generator, the phase-based step        *)
(* driver, and the snapshot history behind stepBack.                       *)
(*                                                                         *)
(* Objects are modelled by their ids.  A JavaScript null is Null for an    *)
(* id or a vertex, and the empty sequence for an optional object (a        *)
(* present object x is <<x>>).  The presentation-only field `description`  *)
(* of the solver state is left out.                                        *)
(***************************************************************************)
EXTENDS Integers, Sequences, FiniteSets, TLC

\* null, for an id or a vertex id (ids are never negative)
Null == -1

\* the value of JavaScript's Infinity: above every hop count; x - y and x < y on
\* it behave as on Infinity (Infinity - Infinity is NaN, which sort takes as 0)
Infinity == 1000000

\* an optional object that is null
None == <<>>

\* an optional object that is present
Some(x) == <<x>>

\* the elements of a sequence
Range(s) == {s[i] : i \in 1..Len(s)}

(***************************************************************************)
(* Graph                                                                   *)
(***************************************************************************)

\* new Graph()
NewGraph == [vertices |-> {}, edges |-> <<>>, adjacency |-> <<>>, nextVertexId |-> 0]

\* Graph.addVertex: the next id, with an empty neighbour set
addVertex(g) ==
    [g EXCEPT !.vertices = @ \cup {g.nextVertexId},
              !.adjacency = (g.nextVertexId :> <<>>) @@ @,
              !.nextVertexId = @ + 1]

\* Graph.addEdge: no self loop, no duplicate; each end is appended to the other's
\* neighbour set (a JavaScript Set iterates in insertion order)
addEdge(g, v1, v2) ==
    IF v1 = v2 THEN g
    ELSE IF \E i \in 1..Len(g.edges) :
              \/ (g.edges[i][1] = v1 /\ g.edges[i][2] = v2)
              \/ (g.edges[i][1] = v2 /\ g.edges[i][2] = v1)
         THEN g
    ELSE [g EXCEPT !.edges = Append(@, <<v1, v2>>),
                   !.adjacency = [@ EXCEPT ![v1] = Append(@, v2), ![v2] = Append(@, v1)]]

\* Graph.getNeighbors: the neighbours in insertion order; none for an unknown vertex
getNeighbors(g, v) == IF v \in DOMAIN g.adjacency THEN g.adjacency[v] ELSE <<>>

RECURSIVE AddVertices(_, _)
AddVertices(g, n) == IF n = 0 THEN g ELSE addVertex(AddVertices(g, n - 1))

RECURSIVE AddEdges(_, _)
AddEdges(g, es) ==
    IF es = <<>> THEN g
    ELSE AddEdges(addEdge(g, Head(es)[1], Head(es)[2]), Tail(es))

\* a graph as the editor or an example builds it: nv vertices, then the edges in order
BuildGraph(nv, es) == AddEdges(AddVertices(NewGraph, nv), es)

\* new Agent(id, start, goal)
Agent(id, s, t) == [id |-> id, start |-> s, goal |-> t]

(***************************************************************************)
(* Configuration                                                           *)
(***************************************************************************)

\* the character of a decimal digit
DigitChar(d) == <<"0", "1", "2", "3", "4", "5", "6", "7", "8", "9">>[d + 1]

RECURSIVE Digits(_)
\* the decimal digits of a non-negative integer, as Number's toString gives them
Digits(n) ==
    IF n < 10 THEN <<DigitChar(n)>> ELSE Digits(n \div 10) \o <<DigitChar(n % 10)>>

\* what Array.join prints for one element: nothing for null, else the number
ElemString(v) == IF v = Null THEN <<>> ELSE Digits(v)

RECURSIVE Join(_)
\* Array.prototype.join(','): the elements' strings separated by commas
Join(locs) ==
    IF locs = <<>> THEN <<>>
    ELSE IF Len(locs) = 1 THEN ElemString(locs[1])
    ELSE ElemString(Head(locs)) \o <<",">> \o Join(Tail(locs))

\* Configuration.hash: the joined locations, a string (here the sequence of its
\* characters)
hash(config) == Join(config)

\* Configuration.equals comparing the two objects, which are never the same
equalsSameObject(c1, c2) == c1 = c2 /\ FALSE

\* Configuration.equals: equal hashes
equals(c1, c2) == hash(c1) = hash(c2)

(***************************************************************************)
(* Distance oracle and priority orders                                     *)
(***************************************************************************)

RECURSIVE VisitNeighborsSameDist(_, _, _, _)
\* the for loop of getDistance enqueuing each neighbour at the distance of the
\* vertex popped
VisitNeighborsSameDist(ns, dist, visited, queue) ==
    IF ns = <<>> THEN [visited |-> visited, queue |-> queue]
    ELSE IF Head(ns) \in visited
         THEN VisitNeighborsSameDist(Tail(ns), dist, visited, queue)
    ELSE VisitNeighborsSameDist(Tail(ns), dist, visited \cup {Head(ns)},
                                Append(queue, [vertex |-> Head(ns), dist |-> dist]))

RECURSIVE VisitNeighbors(_, _, _, _)
\* the for loop of getDistance over the neighbours ns of a vertex popped at
\* distance dist: each unvisited one is marked and enqueued
VisitNeighbors(ns, dist, visited, queue) ==
    IF ns = <<>> THEN [visited |-> visited, queue |-> queue]
    ELSE IF Head(ns) \in visited THEN VisitNeighbors(Tail(ns), dist, visited, queue)
    ELSE VisitNeighbors(Tail(ns), dist, visited \cup {Head(ns)},
                        Append(queue, [vertex |-> Head(ns), dist |-> dist + 1]))

RECURSIVE BFS(_, _, _, _)
\* the while loop of getDistance
BFS(g, to, visited, queue) ==
    IF queue = <<>> THEN Infinity
    ELSE IF Head(queue).vertex = to THEN Head(queue).dist
    ELSE LET r == VisitNeighbors(getNeighbors(g, Head(queue).vertex), Head(queue).dist,
                                 visited, Tail(queue))
         IN  BFS(g, to, r.visited, r.queue)

\* LaCAM.getDistance
getDistance(g, from, to) ==
    IF from = to THEN 0
    ELSE IF from = Null \/ to = Null THEN Infinity
    ELSE BFS(g, to, {from}, <<[vertex |-> from, dist |-> 0]>>)

RECURSIVE InsertSorted(_, _, _)
\* x put into the sorted sequence s behind every element that does not come after
\* it under the comparator (cmp[a, b] > 0: a comes after b)
InsertSorted(s, x, cmp) ==
    IF s = <<>> THEN <<x>>
    ELSE IF cmp[s[Len(s)], x] > 0
         THEN Append(InsertSorted(SubSeq(s, 1, Len(s) - 1), x, cmp), s[Len(s)])
    ELSE Append(s, x)

RECURSIVE SortStable(_, _)
\* Array.prototype.sort with a comparator (a function on pairs of elements): a
\* stable sort
SortStable(s, cmp) ==
    IF s = <<>> THEN <<>>
    ELSE InsertSorted(SortStable(SubSeq(s, 1, Len(s) - 1), cmp), s[Len(s)], cmp)

\* LaCAM.getInitOrder: the agent ids by start-to-goal distance, descending
getInitOrder(g, agents) ==
    LET items == [i \in 1..Len(agents) |->
                    [id |-> agents[i].id,
                     dist |-> getDistance(g, agents[i].start, agents[i].goal)]]
        cmp == [a \in Range(items), b \in Range(items) |-> b.dist - a.dist]
        sorted == SortStable(items, cmp)
    IN  [i \in 1..Len(sorted) |-> sorted[i].id]

\* getOrder without the sort: the agent ids as the agents are listed
getOrderAsListed(g, agents, config) == [i \in 1..Len(agents) |-> agents[i].id]

\* LaCAM.getOrder: agents not at their goal first, then by distance, descending
getOrder(g, agents, config) ==
    LET items == [i \in 1..Len(agents) |->
                    [id |-> agents[i].id,
                     atGoal |-> config[agents[i].id + 1] = agents[i].goal,
                     dist |-> getDistance(g, config[agents[i].id + 1], agents[i].goal)]]
        cmp == [a \in Range(items), b \in Range(items) |->
                    IF a.atGoal # b.atGoal THEN (IF a.atGoal THEN 1 ELSE -1)
                    ELSE b.dist - a.dist]
        sorted == SortStable(items, cmp)
    IN  [i \in 1..Len(sorted) |-> sorted[i].id]

(***************************************************************************)
(* PIBT successor generator                                                *)
(***************************************************************************)

RECURSIVE TryNeighborsFarther(_, _, _, _, _)
\* the for loop of getBestMove with the comparison turned round
TryNeighborsFarther(g, ns, goal, occupied, best) ==
    IF ns = <<>> THEN best.move
    ELSE IF Head(ns) \notin occupied /\ getDistance(g, Head(ns), goal) > best.dist
         THEN TryNeighborsFarther(g, Tail(ns), goal, occupied,
                           [move |-> Head(ns), dist |-> getDistance(g, Head(ns), goal)])
    ELSE TryNeighborsFarther(g, Tail(ns), goal, occupied, best)

RECURSIVE TryNeighbors(_, _, _, _, _)
\* the for loop of getBestMove: a free neighbour strictly nearer the goal than the
\* best so far replaces it
TryNeighbors(g, ns, goal, occupied, best) ==
    IF ns = <<>> THEN best.move
    ELSE IF Head(ns) \notin occupied /\ getDistance(g, Head(ns), goal) < best.dist
         THEN TryNeighbors(g, Tail(ns), goal, occupied,
                           [move |-> Head(ns), dist |-> getDistance(g, Head(ns), goal)])
    ELSE TryNeighbors(g, Tail(ns), goal, occupied, best)

\* getBestMove with the first test asking only whether the goal is free
getBestMoveGoalFree(g, current, goal, occupied) ==
    IF goal \notin occupied THEN goal
    ELSE TryNeighbors(g, getNeighbors(g, current), goal, occupied,
                      IF current \notin occupied
                      THEN [move |-> current, dist |-> getDistance(g, current, goal)]
                      ELSE [move |-> Null, dist |-> Infinity])

\* LaCAM.getBestMove: the vertex to move to, or Null
getBestMove(g, current, goal, occupied) ==
    IF current = goal /\ current \notin occupied THEN current
    ELSE TryNeighbors(g, getNeighbors(g, current), goal, occupied,
                      IF current \notin occupied
                      THEN [move |-> current, dist |-> getDistance(g, current, goal)]
                      ELSE [move |-> Null, dist |-> Infinity])

RECURSIVE PlaceConstrainedUnchecked(_, _, _)
\* PlaceConstrained without the test of occupiedNext
PlaceConstrainedUnchecked(as, constraints, st) ==
    IF as = <<>> THEN st
    ELSE PlaceConstrainedUnchecked(Tail(as), constraints,
             [st EXCEPT !.loc = (Head(as).id :> constraints[Head(as).id]) @@ @,
                        !.occupied = @ \cup {constraints[Head(as).id]}])

RECURSIVE PlaceConstrained(_, _, _)
\* the first placement loop of generateConfig: st is [ok, loc, occupied]
PlaceConstrained(as, constraints, st) ==
    IF as = <<>> \/ ~st.ok THEN st
    ELSE LET nextPos == constraints[Head(as).id]
         IN  IF nextPos \in st.occupied
             THEN [st EXCEPT !.ok = FALSE]
             ELSE PlaceConstrained(Tail(as), constraints,
                      [st EXCEPT !.loc = (Head(as).id :> nextPos) @@ @,
                                 !.occupied = @ \cup {nextPos}])

RECURSIVE PlaceUnconstrained(_, _, _, _)
\* the second placement loop of generateConfig
PlaceUnconstrained(g, as, currentConfig, st) ==
    IF as = <<>> \/ ~st.ok THEN st
    ELSE LET nextPos == getBestMove(g, currentConfig[Head(as).id + 1], Head(as).goal,
                                    st.occupied)
         IN  IF nextPos = Null
             THEN [st EXCEPT !.ok = FALSE]
             ELSE PlaceUnconstrained(g, Tail(as), currentConfig,
                      [st EXCEPT !.loc = (Head(as).id :> nextPos) @@ @,
                                 !.occupied = @ \cup {nextPos}])

\* SwapConflict with the check left out
SwapConflictNone(n, currentConfig, loc) == FALSE

\* SwapConflict with the outer loop started at agent 1
SwapConflictFromOne(n, currentConfig, loc) ==
    \E i \in 1..(n - 1) : \E j \in (i + 1)..(n - 1) :
        currentConfig[i + 1] = loc[j] /\ currentConfig[j + 1] = loc[i]

\* the swap check of generateConfig: some i < j exchange their vertices
SwapConflict(n, currentConfig, loc) ==
    \E i \in 0..(n - 1) : \E j \in (i + 1)..(n - 1) :
        currentConfig[i + 1] = loc[j] /\ currentConfig[j + 1] = loc[i]

\* the elements of s that satisfy the test, in order
SelectSeqBy(s, keep) ==
    LET F[i \in 0..Len(s)] ==
            IF i = 0 THEN <<>>
            ELSE IF s[i] \in keep THEN Append(F[i - 1], s[i]) ELSE F[i - 1]
    IN  F[Len(s)]

\* Partition with constraints.has asked for the agent, not its id: no agent is
\* constrained
PartitionByObject(agents, constraints) ==
    [constrained |-> <<>>, unconstrained |-> agents]

\* the first loop of generateConfig: the agents with a constraint, and the others,
\* each in agent order
Partition(agents, constraints) ==
    [constrained |->
        SelectSeqBy(agents, {a \in Range(agents) : a.id \in DOMAIN constraints}),
     unconstrained |->
        SelectSeqBy(agents, {a \in Range(agents) : a.id \notin DOMAIN constraints})]

\* the placement of generateConfig, before its swap check: [ok, loc, occupied],
\* ok false when a constrained agent's vertex is taken or an agent has no move
Placement(g, agents, currentConfig, constraints) ==
    LET parts == Partition(agents, constraints)
        d(a) == getDistance(g, currentConfig[a.id + 1], a.goal)
        cmp == [a \in Range(agents), b \in Range(agents) |-> d(b) - d(a)]
        sortedAgents == SortStable(parts.unconstrained, cmp)
        st0 == [ok |-> TRUE, loc |-> <<>>, occupied |-> {}]
        st1 == PlaceConstrained(parts.constrained, constraints, st0)
    IN  PlaceUnconstrained(g, sortedAgents, currentConfig, st1)

\* LaCAM.generateConfig: the next configuration (as Some), or None for null.
\* constraints is a function from agent ids to vertices
generateConfig(g, agents, currentConfig, constraints) ==
    LET st == Placement(g, agents, currentConfig, constraints)
    IN  IF ~st.ok THEN None
        ELSE IF SwapConflict(Len(agents), currentConfig, st.loc) THEN None
        ELSE Some([i \in 1..Len(agents) |-> st.loc[i - 1]])

(***************************************************************************)
(* Search nodes                                                            *)
(***************************************************************************)

\* new LowLevelNode born with the searched flag set
LowLevelNodeSearched(id, parent, parentDepth, who, where) ==
    [id |-> id, parent |-> parent, who |-> who, where |-> where, children |-> <<>>,
     depth |-> IF parent = Null THEN 0 ELSE parentDepth + 1,
     isSearched |-> TRUE, isSelected |-> FALSE]

\* new LowLevelNode whose depth is the parent's depth plus two
LowLevelNodeDeeper(id, parent, parentDepth, who, where) ==
    [id |-> id, parent |-> parent, who |-> who, where |-> where, children |-> <<>>,
     depth |-> IF parent = Null THEN 0 ELSE parentDepth + 2,
     isSearched |-> FALSE, isSelected |-> FALSE]

\* new LowLevelNode(parent, who, where) with the given id; depth is the parent's
\* depth plus one, 0 for a root
LowLevelNode(id, parent, parentDepth, who, where) ==
    [id |-> id, parent |-> parent, who |-> who, where |-> where, children |-> <<>>,
     depth |-> IF parent = Null THEN 0 ELSE parentDepth + 1,
     isSearched |-> FALSE, isSelected |-> FALSE]

\* a high-level node whose constraint tree is just a root, queued: new HighLevelNode
\* and the assignments of treeRoot, tree and order that follow it in initialize and
\* stepCheck. ll holds the objects of the constraint tree, by id
HighLevelNode(id, config, parent, rootId, order) ==
    [id |-> id, config |-> config, parent |-> parent, order |-> order,
     treeRoot |-> rootId, tree |-> <<rootId>>,
     ll |-> (rootId :> LowLevelNode(rootId, Null, 0, Null, Null))]

\* getConstraints that stops at the node: its own constraint alone
getConstraintsOwn(ll, id) ==
    IF id = Null \/ id \notin DOMAIN ll THEN <<>>
    ELSE IF ll[id].who = Null THEN <<>>
    ELSE (ll[id].who :> ll[id].where)

RECURSIVE getConstraints(_, _)
\* LowLevelNode.getConstraints: who -> where along the path to the root, set from
\* the node upwards (so an entry of a node nearer the root would overwrite)
getConstraints(ll, id) ==
    IF id = Null \/ id \notin DOMAIN ll THEN <<>>
    ELSE IF ll[id].who = Null THEN <<>>
    ELSE LET up == getConstraints(ll, ll[id].parent)
         IN  IF ll[id].who \in DOMAIN up
             THEN [a \in DOMAIN up |-> up[a]]
             ELSE (ll[id].who :> ll[id].where) @@ up

(***************************************************************************)
(* The solver                                                              *)
(***************************************************************************)

\* the cap of the snapshot history
HistoryLimit == 200

\* the stepBack() calls of a run longer than the history
MaxLongBacks == 1

\* how many stepBack calls a behaviour holds
MaxBacks == 2

\* how many step calls that end in an exception a behaviour holds
MaxThrows == 1

VARIABLES
    graph,                  \* LaCAM.graph
    agents,                 \* LaCAM.agents, agent id i at index i + 1
    nodes,                  \* the live HighLevelNode objects, by id
    open,                   \* state.open: node ids, the top last
    explored,               \* state.explored: entries [hash, node] in insertion order
    currentHighLevelNode,   \* state.currentHighLevelNode: a node id or Null
    currentLowLevelNode,    \* state.currentLowLevelNode: a tree node id or Null
    generatedConfig,        \* state.generatedConfig: None or Some(configuration)
    stepNumber,             \* state.stepNumber
    phase,                  \* state.phase
    status,                 \* state.status
    solution,               \* state.solution: None or Some(path)
    nodesGenerated,         \* state.nodesGenerated
    configurationsExplored, \* state.configurationsExplored
    history,                \* LaCAM.history: the snapshots, the newest last
    hlNodeIdCounter,        \* the global id counter of HighLevelNode
    llNodeIdCounter,        \* the global id counter of LowLevelNode
    shared,                 \* the index in history of the snapshot whose tree objects
                            \* the live nodes are (restoreFromSnapshot does not copy
                            \* them), 0 when there is none
    ret,                    \* the last call: [op, value], value "throws" for an
                            \* uncaught TypeError
    calls,                  \* [back, throws]: the stepBack calls and the throwing
                            \* step calls made so far
    probe                   \* a direct call of generateConfig on the solver:
                            \* [config, constraints, called, out]

vars == <<graph, agents, nodes, open, explored, currentHighLevelNode,
          currentLowLevelNode, generatedConfig, stepNumber, phase, status, solution,
          nodesGenerated, configurationsExplored, history, hlNodeIdCounter,
          llNodeIdCounter, shared, ret, calls, probe>>

\* Map.has asked with a key that is never present (the configuration object)
MapHasNever(m, k) == FALSE

\* Map.has that looks at the newest entry only
MapHasNewest(m, k) == m # <<>> /\ m[Len(m)].hash = k

\* Map.has on state.explored
MapHas(m, k) == \E i \in 1..Len(m) : m[i].hash = k

\* Map.get on state.explored: the node id, Null when the key is absent
MapGet(m, k) ==
    IF MapHas(m, k) THEN m[CHOOSE i \in 1..Len(m) : m[i].hash = k].node ELSE Null

\* Map.set on a map emptied first: the new entry alone
MapSetAlone(m, k, v) == <<[hash |-> k, node |-> v]>>

\* Map.set on state.explored: a present key keeps its place and takes the value
MapSet(m, k, v) ==
    IF MapHas(m, k)
    THEN [i \in 1..Len(m) |-> IF m[i].hash = k THEN [hash |-> k, node |-> v] ELSE m[i]]
    ELSE Append(m, [hash |-> k, node |-> v])

(***************************************************************************)
(* Snapshots                                                               *)
(***************************************************************************)

RECURSIVE cloneLowLevelTree(_, _, _)
RECURSIVE CloneChildren(_, _, _)
\* cloneLowLevelTree of cloneAllNodes: the clones of the node and of everything
\* below it, each with the id, depth and flags of its original and the clone of
\* its parent as parent
cloneLowLevelTree(ll, id, parentClone) ==
    (id :> [ll[id] EXCEPT !.parent = parentClone]) @@ CloneChildren(ll, ll[id].children, id)

\* node.children.map(child => cloneLowLevelTree(child, clone))
CloneChildren(ll, cs, parentClone) ==
    IF cs = <<>> THEN <<>>
    ELSE cloneLowLevelTree(ll, Head(cs), parentClone) @@ CloneChildren(ll, Tail(cs), parentClone)

RECURSIVE BreadthFirst(_, _)
\* the ids of a tree in the order the queue loop of cloneAllNodes visits them
BreadthFirst(ll, queue) ==
    IF queue = <<>> THEN <<>>
    ELSE <<Head(queue)>> \o BreadthFirst(ll, Tail(queue) \o ll[Head(queue)].children)

\* the entry cloneAllNodes makes for one high-level node: the cloned tree, and the
\* queue rebuilt from it (the clones whose id is in the node's queue, breadth-first)
CloneNode(node, parentId) ==
    LET clonedLL == IF node.treeRoot = Null THEN <<>>
                    ELSE cloneLowLevelTree(node.ll, node.treeRoot, Null)
        clonedTree == IF node.treeRoot = Null THEN <<>>
                      ELSE SelectSeqBy(BreadthFirst(clonedLL, <<node.treeRoot>>),
                                       Range(node.tree))
    IN  [id |-> node.id, config |-> node.config, treeRoot |-> node.treeRoot,
         tree |-> clonedTree, order |-> node.order, parentId |-> parentId,
         ll |-> clonedLL]

\* the ids of the nodes cloneAllNodes collects: those on Open and those in Explored
AllNodeIds(ns, op, ex) == Range(op) \cup {ex[i].node : i \in 1..Len(ex)}

\* LaCAM.cloneAllNodes
cloneAllNodes(ns, op, ex) ==
    [id \in AllNodeIds(ns, op, ex) |-> CloneNode(ns[id], ns[id].parent)]

RECURSIVE TreeNodeCount(_, _)
\* the number of tree nodes of the high-level nodes S of ns
TreeNodeCount(ns, S) ==
    IF S = {} THEN 0
    ELSE LET id == CHOOSE x \in S : TRUE
         IN  Cardinality(DOMAIN ns[id].ll) + TreeNodeCount(ns, S \ {id})

\* the LowLevelNode objects cloneAllNodes constructs: each takes an id from the
\* global counter before its original's id is written over it
ClonesMade(cloned) == TreeNodeCount(cloned, DOMAIN cloned)

\* the snapshot saveHistory builds of the solver this (a record of the variables)
Snapshot(this) ==
    [nodes |-> cloneAllNodes(this.nodes, this.open, this.explored),
     openIds |-> this.open,
     exploredMap |-> this.explored,
     currentHighLevelNodeId |-> this.currentHighLevelNode,
     currentLowLevelNodeId |-> this.currentLowLevelNode,
     stepNumber |-> this.stepNumber,
     phase |-> this.phase,
     status |-> this.status,
     nodesGenerated |-> this.nodesGenerated,
     configurationsExplored |-> this.configurationsExplored,
     generatedConfig |-> this.generatedConfig,
     solution |-> this.solution]

\* saveHistory with history.pop() in place of history.shift(): the snapshot just
\* pushed goes when there are more than the cap
saveHistoryDropNewest(this) ==
    LET snapshot == Snapshot(this)
        pushed == Append(this.history, snapshot)
        evict == Len(pushed) > HistoryLimit
    IN  [this EXCEPT
            !.history = IF evict THEN this.history ELSE pushed,
            !.llNodeIdCounter = @ + ClonesMade(snapshot.nodes)]

\* LaCAM.saveHistory: the snapshot is pushed, and the oldest one goes when there
\* are more than the cap; the clones took their ids from the global counter; the
\* shared snapshot moves down with the others when one is evicted
saveHistory(this) ==
    LET snapshot == Snapshot(this)
        pushed == Append(this.history, snapshot)
        evict == Len(pushed) > HistoryLimit
    IN  [this EXCEPT
            !.history = IF evict THEN Tail(pushed) ELSE pushed,
            !.llNodeIdCounter = @ + ClonesMade(snapshot.nodes),
            !.shared = IF evict /\ @ > 0 THEN @ - 1 ELSE @]

\* a write to the tree objects of live node n (its queue array, its tree nodes):
\* the node takes the new queue and tree, and so does the snapshot that holds the
\* same objects
WriteTree(this, n, tree, ll) ==
    [this EXCEPT
        !.nodes[n].tree = tree,
        !.nodes[n].ll = ll,
        !.history = IF this.shared > 0 /\ n \in DOMAIN @[this.shared].nodes
                    THEN [@ EXCEPT ![this.shared].nodes[n].tree = tree,
                                   ![this.shared].nodes[n].ll = ll]
                    ELSE @]

\* the live nodes restoreFromSnapshot builds: the tree, queue and order of each are
\* the snapshot's own objects; a parent that is not in the snapshot is null
RestoredNodes(snapshot) ==
    [id \in DOMAIN snapshot.nodes |->
        LET data == snapshot.nodes[id]
        IN  [id |-> data.id, config |-> data.config,
             parent |-> IF data.parentId # Null /\ data.parentId \in DOMAIN snapshot.nodes
                        THEN data.parentId ELSE Null,
             order |-> data.order, treeRoot |-> data.treeRoot, tree |-> data.tree,
             ll |-> data.ll]]

\* findLLNode of restoreFromSnapshot: the current tree node is looked for in the
\* tree of the current high-level node only
RestoredLowLevelNode(snapshot, ns) ==
    LET h == snapshot.currentHighLevelNodeId
    IN  IF snapshot.currentLowLevelNodeId # Null /\ h # Null /\ h \in DOMAIN ns
           /\ ns[h].treeRoot # Null
           /\ snapshot.currentLowLevelNodeId \in DOMAIN ns[h].ll
        THEN snapshot.currentLowLevelNodeId
        ELSE Null

(***************************************************************************)
(* Instances                                                               *)
(***************************************************************************)

\* the 'paper' example of App.loadExample: edges a-b, b-c, a-d; a to d, c to b
PaperExample ==
    [graph |-> BuildGraph(4, <<<<0, 1>>, <<1, 2>>, <<0, 3>>>>),
     agents |-> <<Agent(0, 0, 3), Agent(1, 2, 1)>>]

\* two agents that have to exchange the ends of one edge
EdgeSwap ==
    [graph |-> BuildGraph(2, <<<<0, 1>>>>),
     agents |-> <<Agent(0, 0, 1), Agent(1, 1, 0)>>]

\* one agent walking a line of three vertices
OneAgentLine ==
    [graph |-> BuildGraph(3, <<<<0, 1>>, <<1, 2>>>>),
     agents |-> <<Agent(0, 0, 2)>>]

\* every agent starts on its goal
AlreadySolved ==
    [graph |-> BuildGraph(2, <<<<0, 1>>>>),
     agents |-> <<Agent(0, 0, 0), Agent(1, 1, 1)>>]

\* two agents exchanging two corners of a triangle
Triangle ==
    [graph |-> BuildGraph(3, <<<<0, 1>>, <<0, 2>>, <<1, 2>>>>),
     agents |-> <<Agent(0, 0, 2), Agent(1, 2, 0)>>]

\* one agent whose goal is not connected to its start
Unreachable ==
    [graph |-> BuildGraph(2, <<>>),
     agents |-> <<Agent(0, 0, 1)>>]

\* the 'swap' example of App.loadExample: the line a-b-c; a to c, c to a
SwapExample ==
    [graph |-> BuildGraph(3, <<<<0, 1>>, <<1, 2>>>>),
     agents |-> <<Agent(0, 0, 2), Agent(1, 2, 0)>>]

\* one agent whose goal lies outside the component it can move in
Disconnected ==
    [graph |-> BuildGraph(3, <<<<0, 1>>>>),
     agents |-> <<Agent(0, 0, 2)>>]

\* three agents on the line a-b-c, one on each vertex
ThreeOnLine ==
    [graph |-> BuildGraph(3, <<<<0, 1>>, <<1, 2>>>>),
     agents |-> <<Agent(0, 0, 2), Agent(1, 1, 1), Agent(2, 2, 0)>>]

\* the 'tunnel' example of App.loadExample: the line t1-t2-t3-t4-t5 with the bypass
\* t6 at t3; t1 to t5 and t5 to t1
TunnelExample ==
    [graph |-> BuildGraph(6, <<<<0, 1>>, <<1, 2>>, <<2, 3>>, <<3, 4>>, <<2, 5>>>>),
     agents |-> <<Agent(0, 0, 4), Agent(1, 4, 0)>>]

\* six vertices with every edge but 4-5 and a seventh vertex with none; one agent
\* from vertex 0 to the seventh: the search ends at step 207
LongSearch ==
    [graph |-> BuildGraph(7, <<<<0, 1>>, <<0, 2>>, <<0, 3>>, <<0, 4>>, <<0, 5>>,
                               <<1, 2>>, <<1, 3>>, <<1, 4>>, <<1, 5>>, <<2, 3>>,
                               <<2, 4>>, <<2, 5>>, <<3, 4>>, <<3, 5>>>>),
     agents |-> <<Agent(0, 0, 6)>>]

\* connected graphs of four vertices: a line, a star, a cycle, a triangle with a
\* tail
ConnectedGraphs ==
    {BuildGraph(4, <<<<0, 1>>, <<1, 2>>, <<2, 3>>>>),
     BuildGraph(4, <<<<0, 1>>, <<0, 2>>, <<0, 3>>>>),
     BuildGraph(4, <<<<0, 1>>, <<1, 2>>, <<2, 3>>, <<3, 0>>>>),
     BuildGraph(4, <<<<0, 1>>, <<1, 2>>, <<0, 2>>, <<2, 3>>>>)}

\* one agent on a connected graph, from any vertex to any other
SingleInstances ==
    {[graph |-> g, agents |-> <<Agent(0, st[1], st[2])>>] :
        g \in ConnectedGraphs,
        st \in {p \in (0..3) \X (0..3) : p[1] # p[2]}}

\* the instances of the runs with undo
Instances == {PaperExample, AlreadySolved, Triangle, Disconnected}

\* the instances of the forward runs
ForwardInstances ==
    Instances \cup {OneAgentLine, EdgeSwap, SwapExample, Unreachable, TunnelExample}

\* the instances of the direct calls of the generator
ProbeInstances == {PaperExample, Triangle, Disconnected, ThreeOnLine}

(***************************************************************************)
(* initialize, step, stepBack                                              *)
(***************************************************************************)

\* LaCAM.initialize, for a solver constructed on a graph and agents: the counters
\* are reset, the initial node is on Open and in Explored, and the history holds
\* one snapshot of that
initialize(g, as) ==
    LET startConfig == [i \in 1..Len(as) |-> as[i].start]
        Ninit == HighLevelNode(0, startConfig, Null, 0, getInitOrder(g, as))
    IN  saveHistory(
            [graph |-> g,
             agents |-> as,
             nodes |-> (0 :> Ninit),
             open |-> <<0>>,
             explored |-> MapSet(<<>>, hash(startConfig), 0),
             currentHighLevelNode |-> 0,
             currentLowLevelNode |-> Null,
             generatedConfig |-> None,
             stepNumber |-> 0,
             phase |-> "select",
             status |-> "running",
             solution |-> None,
             nodesGenerated |-> 1,
             configurationsExplored |-> 1,
             history |-> <<>>,
             hlNodeIdCounter |-> 1,
             llNodeIdCounter |-> 1,
             shared |-> 0])

RECURSIVE backtrackGoalFirst(_, _)
\* backtrack that appends where it should prepend: the configurations from the
\* node up to the initial node
backtrackGoalFirst(ns, id) ==
    IF id = Null THEN <<>>
    ELSE <<ns[id].config>> \o backtrackGoalFirst(ns, ns[id].parent)

RECURSIVE backtrack(_, _)
\* LaCAM.backtrack: the configurations from the initial node down to the node
backtrack(ns, id) ==
    IF id = Null THEN <<>> ELSE Append(backtrack(ns, ns[id].parent), ns[id].config)

\* the outcome of a handler: the solver after it, and what the call returns
Outcome(this, value) == [this |-> this, value |-> value]

\* stepSelect peeking the bottom of Open, its oldest node, not the top
stepSelectOldest(this) ==
    IF this.open = <<>>
    THEN Outcome([this EXCEPT !.status = "no_solution"], "false")
    ELSE LET N == this.open[1]
             goalConfig == [i \in 1..Len(this.agents) |-> this.agents[i].goal]
             peeked == [this EXCEPT !.currentHighLevelNode = N]
         IN  IF equals(this.nodes[N].config, goalConfig)
             THEN Outcome([peeked EXCEPT !.solution = Some(backtrack(this.nodes, N)),
                                         !.status = "solved"], "false")
             ELSE IF this.nodes[N].tree = <<>>
             THEN Outcome([peeked EXCEPT !.open = SubSeq(@, 1, Len(@) - 1)], "true")
             ELSE Outcome([peeked EXCEPT !.phase = "pop_constraint"], "true")

\* LaCAM.stepSelect
stepSelect(this) ==
    IF this.open = <<>>
    THEN Outcome([this EXCEPT !.status = "no_solution"], "false")
    ELSE LET N == this.open[Len(this.open)]
             goalConfig == [i \in 1..Len(this.agents) |-> this.agents[i].goal]
             peeked == [this EXCEPT !.currentHighLevelNode = N]
         IN  IF equals(this.nodes[N].config, goalConfig)
             THEN Outcome([peeked EXCEPT !.solution = Some(backtrack(this.nodes, N)),
                                         !.status = "solved"], "false")
             ELSE IF this.nodes[N].tree = <<>>
             THEN Outcome([peeked EXCEPT !.open = SubSeq(@, 1, Len(@) - 1)], "true")
             ELSE Outcome([peeked EXCEPT !.phase = "pop_constraint"], "true")

\* stepPopConstraint taking the newest node of the work queue, not the oldest
stepPopConstraintLast(this) ==
    LET N == this.currentHighLevelNode
        node == this.nodes[N]
    IN  IF N \notin DOMAIN this.nodes THEN Outcome(this, "throws")
        ELSE IF node.tree = <<>> THEN Outcome(this, "throws")
        ELSE LET C == node.tree[Len(node.tree)]
                 popped == WriteTree(this, N, SubSeq(node.tree, 1, Len(node.tree) - 1),
                               [node.ll EXCEPT ![C].isSelected = TRUE,
                                               ![C].isSearched = TRUE])
             IN  Outcome([popped EXCEPT !.currentLowLevelNode = C,
                                        !.phase = "expand_tree"], "true")

\* LaCAM.stepPopConstraint: shift of an empty queue gives undefined, and the write
\* of its flag is an uncaught TypeError
stepPopConstraint(this) ==
    LET N == this.currentHighLevelNode
        node == this.nodes[N]
    IN  IF N \notin DOMAIN this.nodes THEN Outcome(this, "throws")
        ELSE IF node.tree = <<>> THEN Outcome(this, "throws")
        ELSE LET C == Head(node.tree)
                 popped == WriteTree(this, N, Tail(node.tree),
                               [node.ll EXCEPT ![C].isSelected = TRUE,
                                               ![C].isSearched = TRUE])
             IN  Outcome([popped EXCEPT !.currentLowLevelNode = C,
                                        !.phase = "expand_tree"], "true")

\* CanExpand with the bound one too low: the last agent is never constrained
CanExpandButLast(depth, nAgents) == depth < nAgents - 1

\* the test of stepExpandTree: a node is expanded while some agent is unconstrained
CanExpand(depth, nAgents) == depth < nAgents

\* Moves with staying put last: each neighbour, then the vertex itself
MovesNeighborsFirst(g, currentVertex) ==
    getNeighbors(g, currentVertex) \o <<currentVertex>>

\* the moves stepExpandTree enumerates from a vertex: staying, then each neighbour
Moves(g, currentVertex) == <<currentVertex>> \o getNeighbors(g, currentVertex)

\* NewChildren with one id for all the children of an expansion
NewChildrenSameId(C, depth, agentId, moves, firstId) ==
    [i \in 1..Len(moves) |-> LowLevelNode(firstId, C, depth, agentId, moves[i])]

\* the children stepExpandTree makes for the moves, with ids from firstId on
NewChildren(C, depth, agentId, moves, firstId) ==
    [i \in 1..Len(moves) |->
        LowLevelNode(firstId + i - 1, C, depth, agentId, moves[i])]

\* LaCAM.stepExpandTree: a current tree node that is null is an uncaught TypeError
stepExpandTree(this) ==
    LET N == this.currentHighLevelNode
        node == this.nodes[N]
        C == this.currentLowLevelNode
    IN  IF N \notin DOMAIN this.nodes THEN Outcome(this, "throws")
        ELSE IF C = Null \/ C \notin DOMAIN node.ll THEN Outcome(this, "throws")
        ELSE IF CanExpand(node.ll[C].depth, Len(this.agents))
        THEN LET agentId == node.order[node.ll[C].depth + 1]
                 currentVertex == node.config[agentId + 1]
                 moves == Moves(this.graph, currentVertex)
                 kids == NewChildren(C, node.ll[C].depth, agentId, moves,
                                     this.llNodeIdCounter)
                 ids == [i \in 1..Len(kids) |-> kids[i].id]
                 ll == [id \in DOMAIN node.ll \cup Range(ids) |->
                          IF id \in Range(ids)
                          THEN kids[CHOOSE i \in 1..Len(kids) : kids[i].id = id]
                          ELSE IF id = C THEN [node.ll[C] EXCEPT !.children = @ \o ids]
                          ELSE node.ll[id]]
                 grown == WriteTree(this, N, node.tree \o ids, ll)
             IN  Outcome([grown EXCEPT !.llNodeIdCounter = @ + Len(moves),
                                       !.phase = "generate"], "true")
        ELSE Outcome([this EXCEPT !.phase = "generate"], "true")

\* stepGenerate that keeps the generated configuration of an earlier step when the
\* generator fails
stepGenerateKeepsConfig(this) ==
    LET N == this.currentHighLevelNode
        node == this.nodes[N]
        C == this.currentLowLevelNode
    IN  IF N \notin DOMAIN this.nodes THEN Outcome(this, "throws")
        ELSE IF C = Null \/ C \notin DOMAIN node.ll THEN Outcome(this, "throws")
        ELSE LET constraints == getConstraints(node.ll, C)
                 Qnew == generateConfig(this.graph, this.agents, node.config, constraints)
             IN  IF Qnew = None
                 THEN Outcome([this EXCEPT !.phase = "select"], "true")
                 ELSE Outcome([this EXCEPT !.generatedConfig = Qnew,
                                           !.phase = "check"], "true")

\* LaCAM.stepGenerate
stepGenerate(this) ==
    LET N == this.currentHighLevelNode
        node == this.nodes[N]
        C == this.currentLowLevelNode
    IN  IF N \notin DOMAIN this.nodes THEN Outcome(this, "throws")
        ELSE IF C = Null \/ C \notin DOMAIN node.ll THEN Outcome(this, "throws")
        ELSE LET constraints == getConstraints(node.ll, C)
                 Qnew == generateConfig(this.graph, this.agents, node.config, constraints)
             IN  IF Qnew = None
                 THEN Outcome([this EXCEPT !.generatedConfig = None,
                                           !.phase = "select"], "true")
                 ELSE Outcome([this EXCEPT !.generatedConfig = Qnew,
                                           !.phase = "check"], "true")

\* stepCheck that counts the new node as generated but not as explored
stepCheckCountsOne(this) ==
    IF this.generatedConfig = None THEN Outcome(this, "throws")
    ELSE LET Qnew == this.generatedConfig[1]
             N == this.currentHighLevelNode
         IN  IF MapHas(this.explored, hash(Qnew))
             THEN Outcome([this EXCEPT !.phase = "select"], "true")
             ELSE LET Nnew == HighLevelNode(this.hlNodeIdCounter, Qnew, N,
                                            this.llNodeIdCounter,
                                            getOrder(this.graph, this.agents, Qnew))
                  IN  Outcome([this EXCEPT
                                  !.nodes = (Nnew.id :> Nnew) @@ @,
                                  !.llNodeIdCounter = @ + 1,
                                  !.hlNodeIdCounter = @ + 1,
                                  !.open = Append(@, Nnew.id),
                                  !.explored = MapSet(@, hash(Qnew), Nnew.id),
                                  !.nodesGenerated = @ + 1,
                                  !.phase = "select"], "true")

\* LaCAM.stepCheck: a generated configuration that is null is an uncaught TypeError
stepCheck(this) ==
    IF this.generatedConfig = None THEN Outcome(this, "throws")
    ELSE LET Qnew == this.generatedConfig[1]
             N == this.currentHighLevelNode
         IN  IF MapHas(this.explored, hash(Qnew))
             THEN Outcome([this EXCEPT !.phase = "select"], "true")
             ELSE LET Nnew == HighLevelNode(this.hlNodeIdCounter, Qnew, N,
                                            this.llNodeIdCounter,
                                            getOrder(this.graph, this.agents, Qnew))
                  IN  Outcome([this EXCEPT
                                  !.nodes = (Nnew.id :> Nnew) @@ @,
                                  !.llNodeIdCounter = @ + 1,
                                  !.hlNodeIdCounter = @ + 1,
                                  !.open = Append(@, Nnew.id),
                                  !.explored = MapSet(@, hash(Qnew), Nnew.id),
                                  !.nodesGenerated = @ + 1,
                                  !.configurationsExplored = @ + 1,
                                  !.phase = "select"], "true")

\* the switch of LaCAM.step
Dispatch(this) ==
    CASE this.phase = "select" -> stepSelect(this)
      [] this.phase = "pop_constraint" -> stepPopConstraint(this)
      [] this.phase = "expand_tree" -> stepExpandTree(this)
      [] this.phase = "generate" -> stepGenerate(this)
      [] this.phase = "check" -> stepCheck(this)
      [] OTHER -> Outcome(this, "false")

\* LaCAM.step: nothing when the search has ended; else a snapshot is saved, the
\* step is counted and the handler of the phase runs
step(this) ==
    IF this.status # "running" THEN Outcome(this, "false")
    ELSE Dispatch([saveHistory(this) EXCEPT !.stepNumber = @ + 1])

\* LaCAM.restoreFromSnapshot of the snapshot at index i of the history: every
\* HighLevelNode it constructs takes an id from the global counter before the
\* snapshot's id is written over it
restoreFromSnapshot(this, i) ==
    LET snapshot == this.history[i]
        ns == RestoredNodes(snapshot)
    IN  [this EXCEPT
            !.nodes = ns,
            !.hlNodeIdCounter = @ + Cardinality(DOMAIN snapshot.nodes),
            !.open = SelectSeqBy(snapshot.openIds, DOMAIN ns),
            !.explored = SelectSeqBy(snapshot.exploredMap,
                            {e \in Range(snapshot.exploredMap) : e.node \in DOMAIN ns}),
            !.currentHighLevelNode =
                IF snapshot.currentHighLevelNodeId \in DOMAIN ns
                THEN snapshot.currentHighLevelNodeId ELSE Null,
            !.currentLowLevelNode = RestoredLowLevelNode(snapshot, ns),
            !.stepNumber = snapshot.stepNumber,
            !.phase = snapshot.phase,
            !.status = snapshot.status,
            !.nodesGenerated = snapshot.nodesGenerated,
            !.configurationsExplored = snapshot.configurationsExplored,
            !.generatedConfig = snapshot.generatedConfig,
            !.solution = snapshot.solution,
            !.shared = i]

\* stepBack that restores the newest snapshot when there is none below it
stepBackToNewest(this) ==
    IF Len(this.history) > 1
    THEN LET popped == [this EXCEPT !.history = SubSeq(@, 1, Len(@) - 1)]
         IN  Outcome(restoreFromSnapshot(popped, Len(popped.history)), "true")
    ELSE Outcome(restoreFromSnapshot(this, Len(this.history)), "true")

\* LaCAM.stepBack: the newest snapshot is dropped and the one below it restored
stepBack(this) ==
    IF Len(this.history) > 1
    THEN LET popped == [this EXCEPT !.history = SubSeq(@, 1, Len(@) - 1)]
         IN  Outcome(restoreFromSnapshot(popped, Len(popped.history)), "true")
    ELSE Outcome(this, "false")

(***************************************************************************)
(* The state machine                                                       *)
(***************************************************************************)

\* the solver, as a record of the variables
Cur ==
    [graph |-> graph, agents |-> agents, nodes |-> nodes, open |-> open,
     explored |-> explored, currentHighLevelNode |-> currentHighLevelNode,
     currentLowLevelNode |-> currentLowLevelNode, generatedConfig |-> generatedConfig,
     stepNumber |-> stepNumber, phase |-> phase, status |-> status,
     solution |-> solution, nodesGenerated |-> nodesGenerated,
     configurationsExplored |-> configurationsExplored, history |-> history,
     hlNodeIdCounter |-> hlNodeIdCounter, llNodeIdCounter |-> llNodeIdCounter,
     shared |-> shared]

\* the variables take the fields of the solver this
Becomes(this) ==
    /\ graph' = this.graph
    /\ agents' = this.agents
    /\ nodes' = this.nodes
    /\ open' = this.open
    /\ explored' = this.explored
    /\ currentHighLevelNode' = this.currentHighLevelNode
    /\ currentLowLevelNode' = this.currentLowLevelNode
    /\ generatedConfig' = this.generatedConfig
    /\ stepNumber' = this.stepNumber
    /\ phase' = this.phase
    /\ status' = this.status
    /\ solution' = this.solution
    /\ nodesGenerated' = this.nodesGenerated
    /\ configurationsExplored' = this.configurationsExplored
    /\ history' = this.history
    /\ hlNodeIdCounter' = this.hlNodeIdCounter
    /\ llNodeIdCounter' = this.llNodeIdCounter
    /\ shared' = this.shared

\* no direct call of the generator
NoProbe == [config |-> <<>>, constraints |-> <<>>, called |-> FALSE, out |-> None]

\* a solver constructed on one of the instances and initialized
InitOn(insts) ==
    \E inst \in insts :
        LET this == initialize(inst.graph, inst.agents)
        IN  /\ graph = this.graph
            /\ agents = this.agents
            /\ nodes = this.nodes
            /\ open = this.open
            /\ explored = this.explored
            /\ currentHighLevelNode = this.currentHighLevelNode
            /\ currentLowLevelNode = this.currentLowLevelNode
            /\ generatedConfig = this.generatedConfig
            /\ stepNumber = this.stepNumber
            /\ phase = this.phase
            /\ status = this.status
            /\ solution = this.solution
            /\ nodesGenerated = this.nodesGenerated
            /\ configurationsExplored = this.configurationsExplored
            /\ history = this.history
            /\ hlNodeIdCounter = this.hlNodeIdCounter
            /\ llNodeIdCounter = this.llNodeIdCounter
            /\ shared = this.shared
            /\ ret = [op |-> "initialize", value |-> "undefined"]
            /\ calls = [back |-> 0, throws |-> 0]

Init == InitOn(Instances) /\ probe = NoProbe

ForwardInit == InitOn(ForwardInstances) /\ probe = NoProbe

\* the vertices of a graph
Vertices(g) == g.vertices

\* the configurations of n agents on a graph: every tuple of vertices
Configurations(g, n) == [1..n -> Vertices(g)]

\* the constraint maps of n agents on a graph: any agents, each to any vertex
ConstraintMaps(g, n) ==
    UNION {[D -> Vertices(g)] : D \in SUBSET (0..(n - 1))}

\* a solver on one of the instances, and a configuration and a constraint map to
\* call its generator on
ProbeInit ==
    /\ InitOn(ProbeInstances)
    /\ \E inst \in ProbeInstances :
         /\ graph = inst.graph /\ agents = inst.agents
         /\ \E Q \in Configurations(inst.graph, Len(inst.agents)) :
              \E K \in ConstraintMaps(inst.graph, Len(inst.agents)) :
                probe = [config |-> Q, constraints |-> K, called |-> FALSE, out |-> None]

\* a call of step()
Step ==
    LET r == step(Cur)
    IN  /\ r.value = "throws" => calls.throws < MaxThrows
        /\ Becomes(r.this)
        /\ ret' = [op |-> "step", value |-> r.value]
        /\ calls' = IF r.value = "throws" THEN [calls EXCEPT !.throws = @ + 1] ELSE calls
        /\ UNCHANGED probe

\* a call of stepBack()
StepBack ==
    LET r == stepBack(Cur)
    IN  /\ calls.back < MaxBacks
        /\ Becomes(r.this)
        /\ ret' = [op |-> "stepBack", value |-> r.value]
        /\ calls' = [calls EXCEPT !.back = @ + 1]
        /\ UNCHANGED probe

\* reset() that rewinds the step counter, the phase, the status and the history
\* and keeps the search
ResetKeepsSearch ==
    /\ Becomes([Cur EXCEPT !.stepNumber = 0, !.phase = "select", !.status = "running",
                           !.solution = None, !.generatedConfig = None,
                           !.history = <<Snapshot(Cur)>>])
    /\ ret' = [op |-> "reset", value |-> "undefined"]
    /\ UNCHANGED <<calls, probe>>

\* reset() whose initialize() does not empty the history before it saves
ResetKeepsHistory ==
    /\ Becomes([initialize(graph, agents) EXCEPT !.history = history \o @])
    /\ ret' = [op |-> "reset", value |-> "undefined"]
    /\ UNCHANGED <<calls, probe>>

\* a call of reset(), which is initialize()
Reset ==
    /\ Becomes(initialize(graph, agents))
    /\ ret' = [op |-> "reset", value |-> "undefined"]
    /\ UNCHANGED <<calls, probe>>

Next == Step \/ StepBack \/ Reset

Spec == Init /\ [][Next]_vars

\* a direct call of generateConfig(config, constraints) on the solver
CallGenerate ==
    /\ ~probe.called
    /\ probe' = [probe EXCEPT !.called = TRUE,
                              !.out = generateConfig(graph, agents, probe.config,
                                                     probe.constraints)]
    /\ UNCHANGED <<graph, agents, nodes, open, explored, currentHighLevelNode,
                   currentLowLevelNode, generatedConfig, stepNumber, phase, status,
                   solution, nodesGenerated, configurationsExplored, history,
                   hlNodeIdCounter, llNodeIdCounter, shared, ret, calls>>

\* the generator called on any configuration and any constraint map
ProbeSpec == ProbeInit /\ [][CallGenerate]_vars

\* the instances of the runs longer than the history
LongInstances == {LongSearch}

LongInit == InitOn(LongInstances) /\ probe = NoProbe

\* a call of stepBack() on a full history
LongStepBack ==
    \E r \in {stepBack(Cur)} :
        /\ Len(history) = HistoryLimit
        /\ calls.back < MaxLongBacks
        /\ Becomes(r.this)
        /\ ret' = [op |-> "stepBack", value |-> r.value]
        /\ calls' = [calls EXCEPT !.back = @ + 1]
        /\ UNCHANGED probe

LongNext == Step \/ LongStepBack

\* the runs that fill the history, with stepBack() called on the full history
LongSpec == LongInit /\ [][LongNext]_vars

SingleInit == InitOn(SingleInstances) /\ probe = NoProbe

\* the runs of step() calls of one agent on a connected graph
SingleSpec == SingleInit /\ [][Step]_vars

\* the run of initialize() followed by step() calls only
ForwardSpec == ForwardInit /\ [][Step]_vars /\ WF_vars(Step)

(***************************************************************************)
(* Properties                                                              *)
(***************************************************************************)

StartConfig == [i \in 1..Len(agents) |-> agents[i].start]

GoalConfig == [i \in 1..Len(agents) |-> agents[i].goal]

\* u and v are the ends of an edge of the graph
HasEdge(g, u, v) ==
    \E i \in 1..Len(g.edges) : g.edges[i] = <<u, v>> \/ g.edges[i] = <<v, u>>

\* every agent stays or moves along one edge
StaysOrMoves(g, Q, Q2) ==
    \A a \in 1..Len(Q) : Q2[a] = Q[a] \/ HasEdge(g, Q[a], Q2[a])

\* no two agents on one vertex
Exclusive(Q2) == \A i, j \in 1..Len(Q2) : i # j => Q2[i] # Q2[j]

\* no two agents exchange their vertices
NoSwap(Q, Q2) ==
    \A i, j \in 1..Len(Q) : i # j => ~(Q[i] = Q2[j] /\ Q[j] = Q2[i])

\* Q2 is a valid joint move from Q
ValidSuccessor(g, Q, Q2) ==
    StaysOrMoves(g, Q, Q2) /\ Exclusive(Q2) /\ NoSwap(Q, Q2)

\* C1: when the status is 'solved', the solution path starts at the start
\* configuration, ends at the goal configuration, and each configuration of it is
\* a valid joint move from the one before: every agent stays or moves along an
\* edge, no two agents share a vertex, no two agents exchange vertices.
SolutionSound ==
    status = "solved" =>
        /\ solution # None
        /\ LET path == solution[1]
           IN  /\ Len(path) >= 1
               /\ path[1] = StartConfig
               /\ path[Len(path)] = GoalConfig
               /\ \A t \in 1..(Len(path) - 1) : ValidSuccessor(graph, path[t], path[t + 1])

\* a solved run of two agents whose solution takes two joint moves
SolutionSoundWitness ==
    /\ status = "solved"
    /\ Len(agents) = 2
    /\ Len(solution[1]) = 3

\* the configurations reached from those of S by any number of valid joint moves
RECURSIVE ReachableFrom(_, _)
ReachableFrom(g, S) ==
    LET n == Len(CHOOSE Q \in S : TRUE)
        more == {Q2 \in Configurations(g, n) : \E Q \in S : ValidSuccessor(g, Q, Q2)}
    IN  IF more \subseteq S THEN S ELSE ReachableFrom(g, S \cup more)

\* the configurations of the nodes in Explored
ExploredConfigs == {nodes[explored[i].node].config : i \in 1..Len(explored)}

\* a bound on the steps of a forward run: at most |V|^N high-level nodes, each with
\* at most 1 + (D+1) + ... + (D+1)^N tree nodes for maximal degree D, five steps
\* for a tree node, one more to pop the high-level node, and the last select
RECURSIVE Power(_, _)
Power(b, e) == IF e = 0 THEN 1 ELSE b * Power(b, e - 1)

RECURSIVE TreeBound(_, _)
TreeBound(b, n) == IF n = 0 THEN 1 ELSE Power(b, n) + TreeBound(b, n - 1)

MaxDegree(g) ==
    LET ds == {Len(g.adjacency[v]) : v \in g.vertices}
    IN  CHOOSE d \in ds : \A e \in ds : e <= d

StepBound(g, as) ==
    Power(Cardinality(g.vertices), Len(as))
        * (5 * TreeBound(MaxDegree(g) + 1, Len(as)) + 1) + 1

\* C2: a run of initialize() and step() calls ends: while the status is 'running'
\* no step call has failed, every step call raises the step counter by one, and
\* the step counter stays below a bound that the graph and the agents fix, so
\* that the status is 'solved' or 'no_solution' after at most that many calls.
Termination ==
    /\ [](status = "running" =>
            ret.value # "throws" /\ stepNumber < StepBound(graph, agents))
    /\ [][status = "running" => stepNumber' = stepNumber + 1]_vars

\* the 'swap' example has ended after more than a hundred steps
TerminationWitness ==
    /\ status = "no_solution"
    /\ stepNumber > 100
    /\ ret = [op |-> "step", value |-> "false"]

\* C3: when a run of initialize() and step() calls ends with 'no_solution', Explored
\* holds every configuration that valid joint moves reach from the start, and the
\* goal configuration is not among them.
NoSolutionComplete ==
    status = "no_solution" =>
        LET reach == ReachableFrom(graph, {StartConfig})
        IN  /\ reach \subseteq ExploredConfigs
            /\ GoalConfig \notin reach

\* 'no_solution' after the search explored three configurations
NoSolutionCompleteWitness ==
    /\ status = "no_solution"
    /\ open = <<>>
    /\ Cardinality(ExploredConfigs) = 3

\* C4: a configuration generateConfig returns, for any current configuration and
\* any constraint map, puts the agents on pairwise distinct vertices; when two
\* constrained agents are pinned to one vertex it returns the failure value.
VertexExclusive ==
    probe.called =>
        /\ probe.out # None => Exclusive(probe.out[1])
        /\ (\E a, b \in DOMAIN probe.constraints :
                a # b /\ probe.constraints[a] = probe.constraints[b])
            => probe.out = None

\* a call that returned a configuration although an unconstrained agent's goal,
\* next to it, was pinned for another agent
VertexExclusiveWitness ==
    /\ probe.called
    /\ probe.out # None
    /\ \E a \in 1..Len(agents) :
         /\ (a - 1) \notin DOMAIN probe.constraints
         /\ HasEdge(graph, probe.config[a], agents[a].goal)
         /\ \E b \in DOMAIN probe.constraints : probe.constraints[b] = agents[a].goal

\* C5: the configuration a successful 'generate' step stores has every agent on
\* the vertex it has in the current high-level node's configuration or on a
\* neighbour of it.
MoveLocality ==
    (phase = "check" /\ generatedConfig # None) =>
        StaysOrMoves(graph, nodes[currentHighLevelNode].config, generatedConfig[1])

\* a configuration generated under a constraint, in which some agent moved
MoveLocalityWitness ==
    /\ phase = "check"
    /\ generatedConfig # None
    /\ currentLowLevelNode \in DOMAIN nodes[currentHighLevelNode].ll
    /\ nodes[currentHighLevelNode].ll[currentLowLevelNode].depth >= 1
    /\ generatedConfig[1] # nodes[currentHighLevelNode].config

\* C6: a configuration generateConfig returns has no two agents exchanging their
\* vertices; a placement with such a pair makes it return the failure value.
NoSwapReturned ==
    probe.called =>
        /\ probe.out # None => NoSwap(probe.config, probe.out[1])
        /\ LET st == Placement(graph, agents, probe.config, probe.constraints)
           IN  (st.ok /\ ~NoSwap(probe.config, [i \in 1..Len(agents) |-> st.loc[i - 1]]))
                   => probe.out = None

\* a call whose placement let agents 0 and 2 exchange their vertices
NoSwapReturnedWitness ==
    /\ probe.called
    /\ Len(agents) = 3
    /\ LET st == Placement(graph, agents, probe.config, probe.constraints)
       IN  /\ st.ok
           /\ probe.config[1] # probe.config[3]
           /\ st.loc[0] = probe.config[3]
           /\ st.loc[2] = probe.config[1]
    /\ probe.out = None

\* C7: in a configuration generateConfig returns under a constraint map, every
\* constrained agent is on the vertex the map gives it.
ConstraintsHonoured ==
    (probe.called /\ probe.out # None) =>
        \A a \in DOMAIN probe.constraints : probe.out[1][a + 1] = probe.constraints[a]

\* a returned configuration with an agent pinned to a vertex other than its own
\* and than the move it makes when unconstrained
ConstraintsHonouredWitness ==
    /\ probe.called
    /\ probe.out # None
    /\ \E a \in DOMAIN probe.constraints :
         /\ probe.constraints[a] # probe.config[a + 1]
         /\ getBestMove(graph, probe.config[a + 1], agents[a + 1].goal, {})
                # probe.constraints[a]

\* C8: each key of Explored is the fingerprint of the configuration of the node it
\* maps to, no two entries of Explored hold the same key, the same node or the
\* same configuration, and a step in the 'check' phase creates a high-level node
\* only for a configuration whose fingerprint was not a key of Explored, which it
\* then adds as the newest entry.
NoDuplicateNodes ==
    /\ [](/\ \A i \in 1..Len(explored) :
               /\ explored[i].node \in DOMAIN nodes
               /\ explored[i].hash = Join(nodes[explored[i].node].config)
          /\ \A i, j \in 1..Len(explored) :
               i # j => /\ explored[i].hash # explored[j].hash
                        /\ explored[i].node # explored[j].node
                        /\ nodes[explored[i].node].config # nodes[explored[j].node].config)
    /\ [][(/\ phase = "check"
           /\ ret'.op = "step"
           /\ (hlNodeIdCounter' # hlNodeIdCounter \/ explored' # explored)) =>
            /\ generatedConfig # None
            /\ \A i \in 1..Len(explored) : explored[i].hash # Join(generatedConfig[1])
            /\ explored' = Append(explored, [hash |-> Join(generatedConfig[1]),
                                             node |-> hlNodeIdCounter])
            /\ nodes'[hlNodeIdCounter].config = generatedConfig[1]]_vars

\* a 'check' step found the generated configuration in Explored, next to other
\* entries, and made no node
NoDuplicateNodesWitness ==
    /\ phase = "select"
    /\ ret = [op |-> "step", value |-> "true"]
    /\ generatedConfig # None
    /\ Len(explored) >= 2
    /\ \E i \in 1..(Len(explored) - 1) : explored[i].hash = Join(generatedConfig[1])
    /\ history[Len(history)].phase = "check"
    /\ Len(history[Len(history)].exploredMap) = Len(explored)

RECURSIVE ForwardRun(_, _)
\* the solver after k step() calls on this
ForwardRun(this, k) == IF k = 0 THEN this ELSE ForwardRun(step(this).this, k - 1)

\* what a run shows of the solver: the phase, the status, the generated
\* configuration and the configurations of Open and of Explored, in their order
Observed(this) ==
    [phase |-> this.phase,
     status |-> this.status,
     generatedConfig |-> this.generatedConfig,
     open |-> [i \in 1..Len(this.open) |-> this.nodes[this.open[i]].config],
     explored |-> [i \in 1..Len(this.explored) |->
                     [hash |-> this.explored[i].hash,
                      config |-> this.nodes[this.explored[i].node].config]]]

\* C9: after a stepBack() call, every step() call leaves the solver with the phase,
\* the status, the generated configuration and the Open and Explored contents
\* that the run of step() calls alone has at the same step counter, and does not
\* fail.
UndoKeepsRun ==
    (calls.back > 0 /\ ret.op = "step") =>
        /\ ret.value # "throws"
        /\ Observed(Cur) = Observed(ForwardRun(initialize(graph, agents), stepNumber))

\* what a snapshot is to keep of the solver: Open and Explored by node id, the
\* nodes with their configuration, priority order, parent, constraint tree and
\* queue, the current nodes, the phase, the step counter, the status, the
\* counters, the generated configuration and the solution
SnapshotView(this) ==
    [open |-> this.open,
     explored |-> this.explored,
     nodes |-> this.nodes,
     currentHighLevelNode |-> this.currentHighLevelNode,
     currentLowLevelNode |-> this.currentLowLevelNode,
     phase |-> this.phase,
     stepNumber |-> this.stepNumber,
     status |-> this.status,
     nodesGenerated |-> this.nodesGenerated,
     configurationsExplored |-> this.configurationsExplored,
     generatedConfig |-> this.generatedConfig,
     solution |-> this.solution]

\* the solver after saveHistory() and restoreFromSnapshot() of the snapshot saved
SavedAndRestored(this) ==
    LET saved == saveHistory(this)
    IN  restoreFromSnapshot(saved, Len(saved.history))

\* C10: in every state, saveHistory() followed by restoreFromSnapshot() of the
\* snapshot it saved leaves Open, Explored, the nodes with their trees and queues,
\* the current high-level and low-level nodes, the phase, the step counter, the
\* status, the counters, the generated configuration and the solution as they
\* were.
SnapshotIdempotent == SnapshotView(SavedAndRestored(Cur)) = SnapshotView(Cur)

\* the same of everything but the current low-level node
SnapshotKeepsTheRest ==
    [SnapshotView(SavedAndRestored(Cur)) EXCEPT !.currentLowLevelNode = Null]
        = [SnapshotView(Cur) EXCEPT !.currentLowLevelNode = Null]

\* C11: a stepBack() call made after initialize() and n >= 1 step() calls, with no
\* stepBack() before it, returns true and leaves the solver as it was before the
\* last of these step() calls, which is as the newest snapshot holds it: the step
\* counter is n - 1, and the phase, the status, the generated configuration, Open
\* and Explored are those the last step() started from.
StepBackUndoesOne ==
    [][(calls.back = 0 /\ stepNumber >= 1 /\ ret'.op = "stepBack") =>
        LET before == history[Len(history)]
        IN  /\ ret'.value = "true"
            /\ stepNumber' = stepNumber - 1
            /\ stepNumber' = before.stepNumber
            /\ phase' = before.phase
            /\ status' = before.status
            /\ generatedConfig' = before.generatedConfig
            /\ open' = before.openIds
            /\ explored' = before.exploredMap]_vars


\* C12: a stepBack() call made when the history holds no snapshot below the newest
\* returns false and leaves the search state and the history as they are.
StepBackNoHistory ==
    [][(ret'.op = "stepBack" /\ Len(history) <= 1) =>
        /\ ret'.value = "false"
        /\ UNCHANGED <<graph, agents, nodes, open, explored, currentHighLevelNode,
                       currentLowLevelNode, generatedConfig, stepNumber, phase, status,
                       solution, nodesGenerated, configurationsExplored, history,
                       hlNodeIdCounter, llNodeIdCounter, shared>>]_vars

\* stepBack() was refused after two steps were undone back to the oldest snapshot
StepBackNoHistoryWitness ==
    /\ ret = [op |-> "stepBack", value |-> "false"]
    /\ calls.back = 2
    /\ Len(history) = 1
    /\ shared = 1


\* C13: a step() call returns false when the status after it is 'solved' or
\* 'no_solution' and true when it is 'running', and a step() call made when the
\* status is not 'running' returns false and changes nothing.
StepReturnValue ==
    /\ [](ret.op = "step" =>
            /\ ret.value = "false" <=> status # "running"
            /\ ret.value = "true" <=> status = "running")
    /\ [][(status # "running" /\ ret'.op = "step") =>
            /\ ret'.value = "false"
            /\ UNCHANGED <<graph, agents, nodes, open, explored, currentHighLevelNode,
                           currentLowLevelNode, generatedConfig, stepNumber, phase,
                           status, solution, nodesGenerated, configurationsExplored,
                           history, hlNodeIdCounter, llNodeIdCounter, shared>>]_vars


\* a phase transition of the table of step(): from 'select' to 'select' with the
\* exhausted node popped, to 'pop_constraint', or to the end of the search; then
\* 'expand_tree', 'generate', and 'check' when a configuration was generated or
\* 'select' when none was; from 'check' to 'select'
PhaseTransition(from, to, statusAfter, popped, generated) ==
    \/ from = "select" /\ to = "select" /\ statusAfter = "running" /\ popped
    \/ from = "select" /\ to = "pop_constraint" /\ statusAfter = "running"
    \/ from = "select" /\ to = "select" /\ statusAfter # "running"
    \/ from = "pop_constraint" /\ to = "expand_tree" /\ statusAfter = "running"
    \/ from = "expand_tree" /\ to = "generate" /\ statusAfter = "running"
    \/ from = "generate" /\ to = "check" /\ statusAfter = "running" /\ generated
    \/ from = "generate" /\ to = "select" /\ statusAfter = "running" /\ ~generated
    \/ from = "check" /\ to = "select" /\ statusAfter = "running"

\* C14: after initialize() the phase is 'select'; the phase is always one of the
\* five of the table; and every step() call made while the status is 'running'
\* raises the step counter by one and makes one transition of the table.
PhaseMachine ==
    /\ [](ret.op \in {"initialize", "reset"} => phase = "select")
    /\ [](phase \in {"select", "pop_constraint", "expand_tree", "generate", "check"})
    /\ [][(status = "running" /\ ret'.op = "step") =>
            /\ stepNumber' = stepNumber + 1
            /\ PhaseTransition(phase, phase', status',
                               open' = SubSeq(open, 1, Len(open) - 1),
                               generatedConfig' # None)]_vars


\* a snapshot without the trees, queues and priority orders of its nodes
SnapshotKey(snapshot) ==
    [snapshot EXCEPT !.nodes = [n \in DOMAIN snapshot.nodes |-> snapshot.nodes[n].config]]

\* C15: the history holds at least 1 and at most 200 snapshots after every call,
\* and a step() call made on a history of 200 snapshots drops the oldest one: the
\* others move down by one place and the new snapshot, of the state the step
\* started from, is the newest.
HistoryBounded ==
    /\ [](1 <= Len(history) /\ Len(history) <= HistoryLimit)
    /\ [][(ret'.op = "step" /\ status = "running" /\ Len(history) = HistoryLimit) =>
            /\ Len(history') = HistoryLimit
            /\ \A i \in 1..(HistoryLimit - 1) :
                 SnapshotKey(history'[i]) = SnapshotKey(history[i + 1])
            /\ history'[HistoryLimit].stepNumber = stepNumber
            /\ history'[HistoryLimit].phase = phase]_vars

\* the oldest snapshots are gone, and stepBack() shortened the history
HistoryBoundedWitness ==
    /\ Len(history) = HistoryLimit - 1
    /\ history[1].stepNumber >= 2
    /\ ret = [op |-> "stepBack", value |-> "true"]


ResetIsInitialize ==
    ret.op = "reset" =>
        /\ Len(open) = 1
        /\ nodes[open[1]].config = StartConfig
        /\ nodes[open[1]].tree = <<nodes[open[1]].treeRoot>>
        /\ nodes[open[1]].ll[nodes[open[1]].treeRoot].children = <<>>
        /\ explored = <<[hash |-> Join(StartConfig), node |-> open[1]]>>
        /\ phase = "select"
        /\ status = "running"
        /\ stepNumber = 0
        /\ generatedConfig = None
        /\ solution = None
        /\ Len(history) = 1
        /\ Cur = initialize(graph, agents)

\* reset() of a solver that was undone twice and then failed in step()
ResetIsInitializeWitness ==
    /\ ret.op = "reset"
    /\ calls.back = 2
    /\ calls.throws = 1


\* C18: every node of every constraint tree has a depth from 0 to the number of
\* agents, a root has depth 0, a child is one deeper than its parent, a node as
\* deep as the number of agents has no children, and the step that expands such
\* a node leaves the trees and the queues as they are.
DepthBounded ==
    /\ [](\A n \in DOMAIN nodes : \A c \in DOMAIN nodes[n].ll :
            LET C == nodes[n].ll[c]
            IN  /\ C.depth \in 0..Len(agents)
                /\ C.parent = Null => C.depth = 0
                /\ \A i \in 1..Len(C.children) :
                     /\ C.children[i] \in DOMAIN nodes[n].ll
                     /\ nodes[n].ll[C.children[i]].parent = c
                     /\ nodes[n].ll[C.children[i]].depth = C.depth + 1
                /\ C.depth = Len(agents) => C.children = <<>>)
    /\ [][(/\ phase = "expand_tree"
           /\ ret'.op = "step"
           /\ ret'.value = "true"
           /\ nodes[currentHighLevelNode].ll[currentLowLevelNode].depth = Len(agents)) =>
            nodes' = nodes]_vars

\* a node as deep as the two agents was expanded
DepthBoundedWitness ==
    /\ phase = "generate"
    /\ ret = [op |-> "step", value |-> "true"]
    /\ Len(agents) = 2
    /\ currentLowLevelNode \in DOMAIN nodes[currentHighLevelNode].ll
    /\ nodes[currentHighLevelNode].ll[currentLowLevelNode].depth = 2
    /\ nodes[currentHighLevelNode].ll[currentLowLevelNode].isSearched


\* C19: when every agent starts on its goal, the first step() call after
\* initialize() returns false and leaves the status 'solved' and a solution of one
\* configuration, the start configuration; no second step is counted.
SolvedAtOnce ==
    StartConfig = GoalConfig =>
        /\ stepNumber <= 1
        /\ (ret.op = "step" /\ stepNumber = 1) =>
              /\ ret.value = "false"
              /\ status = "solved"
              /\ phase = "select"
              /\ solution = Some(<<StartConfig>>)

\* the first step on two agents that start on their goals
SolvedAtOnceWitness ==
    /\ StartConfig = GoalConfig
    /\ Len(agents) = 2
    /\ ret = [op |-> "step", value |-> "false"]
    /\ stepNumber = 1
    /\ Len(history) = 2


RECURSIVE Ball(_, _, _)
\* the vertices at most k edges away from those of S
Ball(g, S, k) ==
    IF k = 0 THEN S
    ELSE Ball(g, S \cup {v \in g.vertices : \E u \in S : HasEdge(g, u, v)}, k - 1)

\* every vertex is reached from every other
Connected(g) ==
    \A v \in g.vertices : Ball(g, {v}, Cardinality(g.vertices)) = g.vertices

\* the number of edges of a shortest path from u to v, which the graph connects
HopDistance(g, u, v) ==
    CHOOSE k \in 0..Cardinality(g.vertices) :
        /\ v \in Ball(g, {u}, k)
        /\ k > 0 => v \notin Ball(g, {u}, k - 1)

\* C20: on a connected graph, with one agent that does not start on its goal, the
\* run of step() calls ends: it is over by step 5 d + 1, where d is the number of
\* edges of a shortest path from the start to the goal, with the status 'solved'
\* and a solution of d + 1 configurations.
SingleAgentShortest ==
    (Len(agents) = 1 /\ StartConfig # GoalConfig /\ Connected(graph)) =>
        LET d == HopDistance(graph, agents[1].start, agents[1].goal)
        IN  /\ ret.value # "throws"
            /\ status = "running" => stepNumber <= 5 * d
            /\ status # "running" =>
                 /\ status = "solved"
                 /\ Len(solution[1]) = d + 1

\* one agent arrived three edges away
SingleAgentShortestWitness ==
    /\ Len(agents) = 1
    /\ Connected(graph)
    /\ status = "solved"
    /\ Len(solution[1]) = 4
    /\ solution[1][1] = StartConfig
    /\ solution[1][4] = GoalConfig


\* C21: on the line a-b-c with agent 1 from a to c and agent 2 from c to a, the run
\* of step() calls ends with the status 'no_solution': no step fails, the status
\* is never 'solved', and it is 'running' only below the step bound of the
\* instance.
SwapLineNoSolution ==
    (graph = SwapExample.graph /\ agents = SwapExample.agents) =>
        /\ ret.value # "throws"
        /\ status \in {"running", "no_solution"}
        /\ status = "running" => stepNumber < StepBound(graph, agents)
        /\ status = "no_solution" => open = <<>> /\ solution = None

\* the run on the line ended
SwapLineNoSolutionWitness ==
    /\ graph = SwapExample.graph
    /\ agents = SwapExample.agents
    /\ status = "no_solution"
    /\ ret = [op |-> "step", value |-> "false"]


\* C22: on the line t1-t2-t3-t4-t5 with the pocket t6 at t3, agent 1 from t1 to t5
\* and agent 2 from t5 to t1, the run of step() calls ends with the status
\* 'solved', and in the solution one agent is on t6 at some timestep and the other
\* agent is on t3 at some timestep.
BypassSolved ==
    (graph = TunnelExample.graph /\ agents = TunnelExample.agents) =>
        /\ ret.value # "throws"
        /\ status \in {"running", "solved"}
        /\ status = "running" => stepNumber < StepBound(graph, agents)
        /\ status = "solved" =>
             LET path == solution[1]
             IN  \E a, b \in 1..2 :
                   /\ a # b
                   /\ \E t \in 1..Len(path) : path[t][a] = 5
                   /\ \E t \in 1..Len(path) : path[t][b] = 2

\* the run on the line with the pocket ended with a solution
BypassSolvedWitness ==
    /\ graph = TunnelExample.graph
    /\ agents = TunnelExample.agents
    /\ status = "solved"
    /\ solution[1][1] = <<0, 4>>
    /\ solution[1][Len(solution[1])] = <<4, 0>>


\* C23: on the graph with the edges a-b, b-c, a-d, agent 1 from a to d and agent 2
\* from c to b, the run of step() calls ends with the status 'solved' and a
\* solution of at most 3 configurations whose last has agent 1 on d and agent 2
\* on b.
PaperSolved ==
    (graph = PaperExample.graph /\ agents = PaperExample.agents) =>
        /\ ret.value # "throws"
        /\ status \in {"running", "solved"}
        /\ status = "running" => stepNumber < StepBound(graph, agents)
        /\ status = "solved" =>
             /\ Len(solution[1]) <= 3
             /\ solution[1][Len(solution[1])] = <<3, 1>>

\* the run on the paper example ended with a solution from (a, c)
PaperSolvedWitness ==
    /\ graph = PaperExample.graph
    /\ agents = PaperExample.agents
    /\ status = "solved"
    /\ ret = [op |-> "step", value |-> "false"]
    /\ solution[1][1] = <<0, 2>>


\* the checks of App.initAlgorithm before it constructs the solver: at least two
\* vertices, at least one agent, every agent with a start and a goal
initAlgorithmValidates(g, as) ==
    /\ ~(Cardinality(g.vertices) < 2)
    /\ ~(Len(as) = 0)
    /\ \A i \in 1..Len(as) : ~(as[i].start = Null \/ as[i].goal = Null)

\* no agent at all
NoAgents ==
    [graph |-> BuildGraph(2, <<<<0, 1>>>>),
     agents |-> <<>>]

\* a single vertex
OneVertex ==
    [graph |-> BuildGraph(1, <<>>),
     agents |-> <<Agent(0, 0, 0)>>]

\* an agent without a start on the line a-b-c
NoStart ==
    [graph |-> BuildGraph(3, <<<<0, 1>>, <<1, 2>>>>),
     agents |-> <<Agent(0, Null, 2)>>]

\* an agent without a goal on the line a-b-c
NoGoal ==
    [graph |-> BuildGraph(3, <<<<0, 1>>, <<1, 2>>>>),
     agents |-> <<Agent(0, 0, Null)>>]

\* an agent without a goal beside a complete one
NoGoalOfTwo ==
    [graph |-> BuildGraph(3, <<<<0, 1>>, <<1, 2>>>>),
     agents |-> <<Agent(0, 0, 1), Agent(1, 2, Null)>>]

\* inputs that App.initAlgorithm turns down
InvalidInstances == {NoAgents, OneVertex, NoStart, NoGoal, NoGoalOfTwo}

InvalidInit == InitOn(InvalidInstances) /\ probe = NoProbe

\* initialize() called on a solver that holds an input App.initAlgorithm would
\* turn down (as reset() does after the agents were edited), then step() calls
InvalidSpec == InvalidInit /\ [][Step]_vars

\* C24: initialising with an agent whose start or goal is null, with fewer than
\* two vertices, or with no agent leaves no solver state behind: no OPEN, no
\* EXPLORED, no history, and a status that is neither 'running' nor 'solved'.
InputValidated ==
    ~initAlgorithmValidates(graph, agents) =>
        /\ open = <<>>
        /\ explored = <<>>
        /\ history = <<>>
        /\ status \notin {"running", "solved"}


\* graphs for the distance oracle: the connected ones, and one of five vertices
\* in three components
DistanceGraphs ==
    ConnectedGraphs \cup {BuildGraph(5, <<<<0, 1>>, <<1, 2>>, <<3, 4>>>>),
                          BuildGraph(5, <<<<0, 1>>, <<2, 3>>, <<3, 4>>, <<4, 2>>>>)}

\* a solver on each of these graphs
DistanceInstances ==
    {[graph |-> g, agents |-> <<Agent(0, 0, 1)>>] : g \in DistanceGraphs}

\* the arguments of getDistance: a vertex of the graph, or null
Endpoints(g) == g.vertices \cup {Null}

\* a solver, and two endpoints to call its distance oracle on
DistanceInit ==
    /\ InitOn(DistanceInstances)
    /\ \E inst \in DistanceInstances :
         /\ graph = inst.graph
         /\ \E s \in Endpoints(inst.graph), t \in Endpoints(inst.graph) :
              probe = [from |-> s, to |-> t, called |-> FALSE, out |-> Null]

\* a direct call of getDistance(from, to) on the solver
CallGetDistance ==
    /\ ~probe.called
    /\ probe' = [probe EXCEPT !.called = TRUE,
                              !.out = getDistance(graph, probe.from, probe.to)]
    /\ UNCHANGED <<graph, agents, nodes, open, explored, currentHighLevelNode,
                   currentLowLevelNode, generatedConfig, stepNumber, phase, status,
                   solution, nodesGenerated, configurationsExplored, history,
                   hlNodeIdCounter, llNodeIdCounter, shared, ret, calls>>

\* the distance oracle called on any two endpoints
DistanceSpec == DistanceInit /\ [][CallGetDistance]_vars

\* t is reached from s along edges of the graph
Reaches(g, s, t) == t \in Ball(g, {s}, Cardinality(g.vertices))

\* C25 as stated: getDistance(s, t) is 0 when s equals t, the number of edges of
\* a shortest path when t is reachable from s, Infinity when t is unreachable or
\* either endpoint is null, and the same as getDistance(t, s).
DistanceOracle ==
    probe.called =>
        LET s == probe.from
            t == probe.to
        IN  /\ s = t => probe.out = 0
            /\ (s # Null /\ t # Null /\ Reaches(graph, s, t)) =>
                   probe.out = HopDistance(graph, s, t)
            /\ (s # Null /\ t # Null /\ ~Reaches(graph, s, t)) => probe.out = Infinity
            /\ (s = Null \/ t = Null) => probe.out = Infinity
            /\ probe.out = getDistance(graph, t, s)

\* C25: getDistance(s, t) is 0 when s equals t, null included; for s other than
\* t it is Infinity when an endpoint is null or t is unreachable from s, and the
\* number of edges of a shortest path otherwise; it is the same as
\* getDistance(t, s).
DistanceOracleEqualFirst ==
    probe.called =>
        LET s == probe.from
            t == probe.to
        IN  /\ s = t => probe.out = 0
            /\ (s # Null /\ t # Null /\ Reaches(graph, s, t)) =>
                   probe.out = HopDistance(graph, s, t)
            /\ (s # Null /\ t # Null /\ ~Reaches(graph, s, t)) => probe.out = Infinity
            /\ (s # t /\ (s = Null \/ t = Null)) => probe.out = Infinity
            /\ probe.out = getDistance(graph, t, s)

\* the oracle counted the three edges from one end of the line to the other
DistanceOracleWitness ==
    /\ probe.called
    /\ probe.from = 0
    /\ probe.to = 3
    /\ probe.out = 3
    /\ ~HasEdge(graph, 0, 3)


\* C26: an 'expand_tree' step on a tree node C of depth d below the number of
\* agents, in the high-level node M, creates deg(v) + 1 children of C for the
\* agent a = M.order[d], where v is the vertex of a in M's configuration: the
\* first for v, the others for the neighbours of v in adjacency order; the step
\* appends these children, in this order, to the end of M's work queue.
ExpandCreatesMoves ==
    [][(phase = "expand_tree" /\ ret'.op = "step" /\ ret'.value = "true") =>
          LET M == currentHighLevelNode
              C == currentLowLevelNode
              d == nodes[M].ll[C].depth
          IN  d < Len(agents) =>
                LET a == nodes[M].order[d + 1]
                    v == nodes[M].config[a + 1]
                    ns == graph.adjacency[v]
                    queue == nodes'[M].tree
                    before == Len(nodes[M].tree)
                    created == DOMAIN nodes'[M].ll \ DOMAIN nodes[M].ll
                IN  /\ Cardinality(created) = Len(ns) + 1
                    /\ Len(queue) = before + Len(ns) + 1
                    /\ SubSeq(queue, 1, before) = nodes[M].tree
                    /\ {queue[before + i] : i \in 1..(Len(ns) + 1)} = created
                    /\ \A i \in 1..(Len(ns) + 1) :
                         LET child == nodes'[M].ll[queue[before + i]]
                         IN  /\ child.parent = C
                             /\ child.depth = d + 1
                             /\ child.who = a
                             /\ child.where = IF i = 1 THEN v ELSE ns[i - 1]
                    /\ nodes'[M].ll[C].children =
                         nodes[M].ll[C].children
                           \o SubSeq(queue, before + 1, Len(queue))
                    /\ \A id \in DOMAIN nodes \ {M} : nodes'[id] = nodes[id]]_vars

\* an 'expand_tree' step gave the current tree node three children, now the last
\* three of the work queue
ExpandCreatesMovesWitness ==
    /\ ret = [op |-> "step", value |-> "true"]
    /\ phase = "generate"
    /\ currentHighLevelNode \in DOMAIN nodes
    /\ currentLowLevelNode \in DOMAIN nodes[currentHighLevelNode].ll
    /\ LET node == nodes[currentHighLevelNode]
           kids == node.ll[currentLowLevelNode].children
       IN  /\ Len(kids) = 3
           /\ Len(node.tree) >= 3
           /\ SubSeq(node.tree, Len(node.tree) - 2, Len(node.tree)) = kids


\* C27: in a run of step() calls, the work queue of every high-level node holds
\* its tree nodes by depth, shallowest first, each once and none that was dequeued
\* before; no dequeued node is deeper than a queued one; the root is the first to
\* be dequeued; and a 'pop_constraint' step dequeues the head of the queue, a
\* node not dequeued before.
BreadthFirstOrder ==
    /\ [](\A M \in DOMAIN nodes :
            LET queue == nodes[M].tree
                ll == nodes[M].ll
            IN  /\ \A i, j \in 1..Len(queue) :
                     i < j => /\ queue[i] # queue[j]
                              /\ ll[queue[i]].depth <= ll[queue[j]].depth
                /\ \A i \in 1..Len(queue) : ~ll[queue[i]].isSearched
                /\ \A c \in DOMAIN ll :
                     ll[c].isSearched =>
                       \A i \in 1..Len(queue) : ll[c].depth <= ll[queue[i]].depth
                /\ (\A c \in DOMAIN ll : ~ll[c].isSearched) =>
                       queue = <<nodes[M].treeRoot>>)
    /\ [][(phase = "pop_constraint" /\ ret'.op = "step") =>
            LET M == currentHighLevelNode
                C == currentLowLevelNode'
            IN  /\ ret'.value = "true"
                /\ C = Head(nodes[M].tree)
                /\ nodes'[M].tree = Tail(nodes[M].tree)
                /\ ~nodes[M].ll[C].isSearched
                /\ nodes'[M].ll[C].isSearched
                /\ \A c \in DOMAIN nodes[M].ll :
                     nodes[M].ll[c].isSearched =>
                       nodes[M].ll[c].depth <= nodes[M].ll[C].depth]_vars

\* a node of depth 2 was dequeued while nodes of its depth were still queued
BreadthFirstOrderWitness ==
    /\ ret = [op |-> "step", value |-> "true"]
    /\ phase = "expand_tree"
    /\ LET node == nodes[currentHighLevelNode]
       IN  /\ node.ll[currentLowLevelNode].depth = 2
           /\ node.tree # <<>>
           /\ node.ll[Head(node.tree)].depth = 2


\* C28: in every high-level node M, a tree node C of depth d >= 1 constrains the
\* agent M.order[d - 1] to the vertex it has in M's configuration or to a
\* neighbour of it, and the constraints collected from C are those collected from
\* its parent and its own: d entries, one for each of the first d agents of
\* M.order; the root has depth 0 and collects no constraint.
PathPinsPrefix ==
    \A M \in DOMAIN nodes :
        LET ll == nodes[M].ll
            order == nodes[M].order
            Q == nodes[M].config
        IN  \A c \in DOMAIN ll :
                LET C == ll[c]
                    d == C.depth
                    K == getConstraints(ll, c)
                IN  /\ d = 0 <=> c = nodes[M].treeRoot
                    /\ d = 0 => C.who = Null /\ C.parent = Null /\ DOMAIN K = {}
                    /\ d >= 1 =>
                         /\ d <= Len(order)
                         /\ C.who = order[d]
                         /\ \/ C.where = Q[C.who + 1]
                            \/ HasEdge(graph, Q[C.who + 1], C.where)
                         /\ DOMAIN K = {order[i] : i \in 1..d}
                         /\ Cardinality(DOMAIN K) = d
                         /\ K[C.who] = C.where
                         /\ C.parent \in DOMAIN ll
                         /\ ll[C.parent].depth = d - 1
                         /\ LET up == getConstraints(ll, C.parent)
                            IN  \A a \in DOMAIN up : K[a] = up[a]

\* a configuration was generated under the two constraints of a node of depth 2,
\* the second of them a move along an edge
PathPinsPrefixWitness ==
    /\ ret = [op |-> "step", value |-> "true"]
    /\ phase = "check"
    /\ currentHighLevelNode \in DOMAIN nodes
    /\ currentLowLevelNode \in DOMAIN nodes[currentHighLevelNode].ll
    /\ LET node == nodes[currentHighLevelNode]
           C == node.ll[currentLowLevelNode]
       IN  /\ C.depth = 2
           /\ C.where # node.config[C.who + 1]
           /\ Cardinality(DOMAIN getConstraints(node.ll, currentLowLevelNode)) = 2


\* C29: every node on Open is the node of an entry of Explored; a step() call
\* keeps every entry of Explored, its key and its node, and adds one entry exactly
\* when it is a 'check' step on a configuration whose fingerprint is not a key of
\* Explored.
OpenWithinExplored ==
    /\ [](\A i \in 1..Len(open) : \E j \in 1..Len(explored) : explored[j].node = open[i])
    /\ [][ret'.op = "step" =>
            /\ Len(explored') >= Len(explored)
            /\ \A i \in 1..Len(explored) : explored'[i] = explored[i]
            /\ IF /\ status = "running"
                  /\ phase = "check"
                  /\ generatedConfig # None
                  /\ \A i \in 1..Len(explored) :
                       explored[i].hash # Join(generatedConfig[1])
               THEN Len(explored') = Len(explored) + 1
               ELSE Len(explored') = Len(explored)]_vars

\* a 'check' step added the third entry of Explored, whose node is on top of Open
\* above another
OpenWithinExploredWitness ==
    /\ ret = [op |-> "step", value |-> "true"]
    /\ phase = "select"
    /\ history[Len(history)].phase = "check"
    /\ Len(history[Len(history)].exploredMap) = 2
    /\ Len(explored) = 3
    /\ Len(open) >= 2
    /\ open[Len(open)] = explored[3].node


\* C30: a 'check' step that creates a high-level node pushes it on top of Open,
\* with the current node as its parent, and leaves the phase 'select'; a 'select'
\* step makes the top of Open the current node; and a step() call takes a node
\* from Open only in the 'select' phase, the node on top, whose work queue is
\* empty and whose configuration is not the goal.
DepthFirstSelection ==
    [][ret'.op = "step" =>
         /\ (status = "running" /\ phase = "check"
               /\ hlNodeIdCounter' # hlNodeIdCounter) =>
              /\ hlNodeIdCounter \notin DOMAIN nodes
              /\ open' = Append(open, hlNodeIdCounter)
              /\ nodes'[hlNodeIdCounter].parent = currentHighLevelNode
              /\ phase' = "select"
              /\ status' = "running"
         /\ (status = "running" /\ phase = "select" /\ open # <<>>) =>
              currentHighLevelNode' = open[Len(open)]
         /\ (\E i \in 1..Len(open) : i > Len(open') \/ open'[i] # open[i]) =>
              /\ status = "running"
              /\ phase = "select"
              /\ open' = SubSeq(open, 1, Len(open) - 1)
              /\ nodes[open[Len(open)]].tree = <<>>
              /\ Join(nodes[open[Len(open)]].config) # Join(GoalConfig)]_vars

\* the node a 'check' step pushed on Open was made the current node by the
\* 'select' step after it
DepthFirstSelectionWitness ==
    /\ ret = [op |-> "step", value |-> "true"]
    /\ phase = "pop_constraint"
    /\ Len(history) >= 2
    /\ history[Len(history)].phase = "select"
    /\ history[Len(history) - 1].phase = "check"
    /\ Len(history[Len(history) - 1].openIds) + 1 = Len(open)
    /\ currentHighLevelNode = open[Len(open)]
    /\ nodes[currentHighLevelNode].parent = open[Len(open) - 1]


\* the number of edges of a shortest path from u to v, Infinity when there is none
EdgeDistance(g, u, v) == IF Reaches(g, u, v) THEN HopDistance(g, u, v) ELSE Infinity

\* C31: the order of every high-level node is a permutation of the agent ids in
\* which an agent not at its goal in the node's configuration comes before every
\* agent at its goal, distances to the goal do not increase along each of the two
\* groups, and of two agents at the same distance the one with the smaller id
\* comes first; the initial node holds the start configuration, so its order
\* is by start-to-goal distance, descending.
PriorityOrderRule ==
    \A M \in DOMAIN nodes :
        LET order == nodes[M].order
            Q == nodes[M].config
            atGoal(a) == Q[a + 1] = agents[a + 1].goal
            dist(a) == EdgeDistance(graph, Q[a + 1], agents[a + 1].goal)
        IN  /\ Len(order) = Len(agents)
            /\ {order[i] : i \in 1..Len(order)} = 0..(Len(agents) - 1)
            /\ nodes[M].parent = Null => Q = StartConfig
            /\ \A i, j \in 1..Len(order) :
                 i < j =>
                   LET a == order[i]
                       b == order[j]
                   IN  /\ atGoal(a) => atGoal(b)
                       /\ atGoal(a) = atGoal(b) => dist(a) >= dist(b)
                       /\ dist(a) = dist(b) => a < b

\* a node was created whose order puts the second agent before the first, which
\* is nearer its goal
PriorityOrderRuleWitness ==
    \E M \in DOMAIN nodes :
        /\ nodes[M].parent # Null
        /\ nodes[M].order = <<1, 0>>
        /\ EdgeDistance(graph, nodes[M].config[2], agents[2].goal)
             > EdgeDistance(graph, nodes[M].config[1], agents[1].goal)


\* a solver, and an agent's vertex, its goal and a set of vertices taken, to call
\* getBestMove on
MoveInit ==
    /\ InitOn(DistanceInstances)
    /\ \E inst \in DistanceInstances :
         /\ graph = inst.graph
         /\ \E u \in inst.graph.vertices, t \in inst.graph.vertices :
              \E occ \in SUBSET inst.graph.vertices :
                probe = [current |-> u, goal |-> t, occupied |-> occ,
                         called |-> FALSE, out |-> Null]

\* a direct call of getBestMove(agentId, current, goal, occupied) on the solver
CallGetBestMove ==
    /\ ~probe.called
    /\ probe' = [probe EXCEPT !.called = TRUE,
                              !.out = getBestMove(graph, probe.current, probe.goal,
                                                  probe.occupied)]
    /\ UNCHANGED <<graph, agents, nodes, open, explored, currentHighLevelNode,
                   currentLowLevelNode, generatedConfig, stepNumber, phase, status,
                   solution, nodesGenerated, configurationsExplored, history,
                   hlNodeIdCounter, llNodeIdCounter, shared, ret, calls>>

\* getBestMove called on any vertex, goal and set of occupied vertices
MoveSpec == MoveInit /\ [][CallGetBestMove]_vars

\* the candidates of a move from u: u, then its neighbours in adjacency order
Candidates(g, u) == <<u>> \o g.adjacency[u]

\* C32: a vertex that getBestMove returns for an agent at u with goal g is an
\* unoccupied candidate of {u} and the neighbours of u, no unoccupied candidate is
\* nearer to g, and every unoccupied candidate before it in the order (u, then the
\* neighbours in adjacency order) is farther from g; for u = g unoccupied it is u.
GreedyMove ==
    probe.called =>
        LET u == probe.current
            cand == Candidates(graph, u)
            free(i) == cand[i] \notin probe.occupied
            dist(v) == EdgeDistance(graph, v, probe.goal)
        IN  /\ probe.out # Null =>
                 \E i \in 1..Len(cand) :
                     /\ cand[i] = probe.out
                     /\ free(i)
                     /\ \A j \in 1..Len(cand) : free(j) => dist(cand[j]) >= dist(cand[i])
                     /\ \A j \in 1..(i - 1) : free(j) => dist(cand[j]) > dist(cand[i])
            /\ (u = probe.goal /\ u \notin probe.occupied) => probe.out = u

\* getBestMove chose a free neighbour nearer the goal than the free vertex of the
\* agent, the first of two at that distance
GreedyMoveWitness ==
    /\ probe.called
    /\ probe.out # Null
    /\ probe.out # probe.current
    /\ probe.current \notin probe.occupied
    /\ LET cand == Candidates(graph, probe.current)
       IN  \E i, j \in 1..Len(cand) :
             /\ i < j
             /\ cand[i] = probe.out
             /\ cand[j] \notin probe.occupied
             /\ EdgeDistance(graph, cand[j], probe.goal)
                  = EdgeDistance(graph, cand[i], probe.goal)


\* C33: getBestMove returns null for an agent at u only when u and every
\* neighbour of u are occupied; when some vertex of {u} and the neighbours of u is
\* unoccupied it returns a vertex, also when the goal is unreachable from all of
\* them.
FailsOnlyBoxedIn ==
    probe.called =>
        LET cand == Candidates(graph, probe.current)
        IN  (\E i \in 1..Len(cand) : cand[i] \notin probe.occupied) => probe.out # Null


\* C34: a 'generate' step in which the generator fails leaves the generated
\* configuration null, the phase 'select' and the status 'running', and changes
\* neither Open, nor Explored, nor the two counters, nor any constraint tree or
\* work queue; a 'check' step on a configuration whose fingerprint is a key of
\* Explored leaves the phase 'select' and changes neither Open, nor Explored,
\* nor the counters.
RejectionSkips ==
    [][(status = "running" /\ ret'.op = "step" /\ ret'.value = "true") =>
         /\ (/\ phase = "generate"
             /\ generateConfig(graph, agents, nodes[currentHighLevelNode].config,
                               getConstraints(nodes[currentHighLevelNode].ll,
                                              currentLowLevelNode)) = None) =>
              /\ generatedConfig' = None
              /\ phase' = "select"
              /\ status' = "running"
              /\ open' = open
              /\ explored' = explored
              /\ nodesGenerated' = nodesGenerated
              /\ configurationsExplored' = configurationsExplored
              /\ nodes' = nodes
         /\ (/\ phase = "check"
             /\ \E i \in 1..Len(explored) : explored[i].hash = Join(generatedConfig[1])) =>
              /\ phase' = "select"
              /\ status' = "running"
              /\ open' = open
              /\ explored' = explored
              /\ nodesGenerated' = nodesGenerated
              /\ configurationsExplored' = configurationsExplored]_vars

\* a 'generate' step failed after an earlier one had generated a configuration
RejectionSkipsWitness ==
    /\ ret = [op |-> "step", value |-> "true"]
    /\ status = "running"
    /\ phase = "select"
    /\ generatedConfig = None
    /\ history[Len(history)].phase = "generate"
    /\ history[Len(history)].generatedConfig # None
    /\ history[Len(history)].openIds = open


\* C35: in every state reached from initialize() by step() and stepBack() calls,
\* if the phase is 'pop_constraint' then the current high-level node is the top of
\* Open and its work queue is not empty.
PopPrecondition ==
    phase = "pop_constraint" =>
        /\ open # <<>>
        /\ currentHighLevelNode = open[Len(open)]
        /\ nodes[currentHighLevelNode].tree # <<>>


\* C36: the entries of Explored hold nodes of pairwise distinct ids; every
\* high-level node has an id below the global counter, and so has every node of
\* its constraint tree; within a tree every node other than the root is listed
\* once, among the children of its parent alone; and the nodes a step() call
\* adds take ids that no node of the solver had.
UniqueNodeIds ==
    /\ [](/\ \A i, j \in 1..Len(explored) :
               i # j => explored[i].node # explored[j].node
          /\ \A M \in DOMAIN nodes :
               LET ll == nodes[M].ll
               IN  /\ nodes[M].id = M
                   /\ M < hlNodeIdCounter
                   /\ \A c \in DOMAIN ll :
                        /\ ll[c].id = c
                        /\ c < llNodeIdCounter
                        /\ \A i, j \in 1..Len(ll[c].children) :
                             i # j => ll[c].children[i] # ll[c].children[j]
                        /\ \A i \in 1..Len(ll[c].children) :
                             /\ ll[c].children[i] \in DOMAIN ll
                             /\ ll[ll[c].children[i]].parent = c
                        /\ ll[c].parent # Null =>
                             /\ ll[c].parent \in DOMAIN ll
                             /\ \E i \in 1..Len(ll[ll[c].parent].children) :
                                  ll[ll[c].parent].children[i] = c)
    /\ [][ret'.op = "step" =>
            /\ \A M \in DOMAIN nodes' \ DOMAIN nodes : M >= hlNodeIdCounter
            /\ \A M \in DOMAIN nodes' :
                 \A c \in DOMAIN nodes'[M].ll :
                     (M \notin DOMAIN nodes \/ c \notin DOMAIN nodes[M].ll) =>
                         c >= llNodeIdCounter]_vars

\* after an undo, a 'check' step made a high-level node whose id skips those the
\* restore took from the counter
UniqueNodeIdsWitness ==
    /\ ret = [op |-> "step", value |-> "true"]
    /\ shared > 0
    /\ phase = "select"
    /\ history[Len(history)].phase = "check"
    /\ (hlNodeIdCounter - 1) \in DOMAIN nodes
    /\ (hlNodeIdCounter - 1) \notin DOMAIN history[Len(history)].nodes
    /\ hlNodeIdCounter > Cardinality(DOMAIN nodes)


\* C37: when Open is not empty its bottom entry is the initial node, which has no
\* parent, and the parent of every other entry is the entry below it; Open holds
\* no node twice; and with the status 'solved' the solution is the sequence of the
\* configurations of Open, from the bottom to the top.
OpenIsParentChain ==
    /\ open # <<>> =>
         /\ nodes[open[1]].parent = Null
         /\ nodes[open[1]].config = StartConfig
    /\ \A i \in 2..Len(open) : nodes[open[i]].parent = open[i - 1]
    /\ \A i, j \in 1..Len(open) : i # j => open[i] # open[j]
    /\ status = "solved" =>
         solution = Some([i \in 1..Len(open) |-> nodes[open[i]].config])

\* the search ended with a solution of three configurations, those of the three
\* nodes on Open
OpenIsParentChainWitness ==
    /\ status = "solved"
    /\ Len(open) = 3
    /\ Len(solution[1]) = 3
    /\ solution[1][3] = nodes[open[3]].config
    /\ nodes[open[3]].parent = open[2]


\* C38: in every state reached by step() and stepBack() calls, nodesGenerated and
\* configurationsExplored both equal the number of entries of Explored.
CountersTrackExplored ==
    /\ nodesGenerated = Len(explored)
    /\ configurationsExplored = Len(explored)

\* a stepBack() call restored a snapshot of the 'check' phase: two entries of
\* Explored and counters of 2
CountersTrackExploredWitness ==
    /\ ret = [op |-> "stepBack", value |-> "true"]
    /\ phase = "check"
    /\ Len(explored) = 2
    /\ nodesGenerated = 2


\* C39: a step() call changes no snapshot of the history: the snapshots it finds
\* there, with their constraint trees, node flags, child lists and work queues,
\* are the same after it, below the snapshot it adds; so also after a stepBack()
\* call restored one of them.
SnapshotsImmutable ==
    [][(ret'.op = "step" /\ Len(history) < HistoryLimit) =>
          SubSeq(history', 1, Len(history)) = history]_vars


\* C40: in a run of step() calls, the work queue of every high-level node of
\* Explored is the sequence of the nodes of its constraint tree that are not
\* searched, in the breadth-first order of the tree, which is the order of their
\* creation, each once; every tree node is selected exactly if it is searched; and
\* a step() call resets neither flag.
QueueIsPending ==
    /\ [](\A e \in 1..Len(explored) :
            LET M == explored[e].node
                ll == nodes[M].ll
                queue == nodes[M].tree
                all == BreadthFirst(ll, <<nodes[M].treeRoot>>)
            IN  /\ {all[i] : i \in 1..Len(all)} = DOMAIN ll
                /\ Len(all) = Cardinality(DOMAIN ll)
                /\ queue = SelectSeq(all, LAMBDA c : ~ll[c].isSearched)
                /\ \A i, j \in 1..Len(queue) : i < j => queue[i] < queue[j]
                /\ \A c \in DOMAIN ll : ll[c].isSelected = ll[c].isSearched)
    /\ [][\A M \in DOMAIN nodes :
            \A c \in DOMAIN nodes[M].ll :
                /\ nodes[M].ll[c].isSearched => nodes'[M].ll[c].isSearched
                /\ nodes[M].ll[c].isSelected => nodes'[M].ll[c].isSelected]_vars

\* a tree with its root and a child searched, and the children of both still
\* queued
QueueIsPendingWitness ==
    /\ ret = [op |-> "step", value |-> "true"]
    /\ phase = "generate"
    /\ LET node == nodes[currentHighLevelNode]
       IN  /\ Cardinality({c \in DOMAIN node.ll : node.ll[c].isSearched}) = 2
           /\ node.ll[currentLowLevelNode].depth = 1
           /\ Len(node.tree) >= 3
           /\ node.ll[node.tree[Len(node.tree)]].depth = 2

=============================================================================
